---- MODULE Spec2Model ----
(***************************************************************************)
(* AFHArchive: the sync coordinator and the mirror API                     *)
(* (app/utils/mirror_utils.py, app/routes/mirror_api.py), the chunked      *)
(* upload assembler and the download endpoint (app/routes/api.py), the     *)
(* shared bandwidth pool (app/utils/rate_limiter.py) and the comparison    *)
(* with the external page (app/utils/afh_verifier.py).                     *)
(*                                                                         *)
(* The specifications share the module, one per subsystem; each leaves the *)
(* variables of the others untouched:                                      *)
(*   SpecSync      - trigger_mirror_sync threads, sync_complete callbacks  *)
(*   SpecUpload    - upload_chunk / complete_chunked_upload                *)
(*   SpecLease     - RateLimiter leases taken by streamed downloads        *)
(*   SpecFetch     - perform_sync threads on the mirrors                   *)
(*   SpecPoll      - upload_status polls                                   *)
(*   SpecHeartbeat - the heartbeat loop of a mirror node's processes       *)
(*   SpecSelect    - mirror selection against heartbeats and time          *)
(*   SpecCallback  - heartbeat, progress and sync_complete by api_key      *)
(*   SpecDownload  - download_file with mirror key and Range header        *)
(*   SpecJobs      - receive_sync_job and the mirror's own catalog         *)
(*   SpecVerify    - verify_md5_against_afh                                *)
(*   SpecFrame     - sync_complete with replicas of two files              *)
(*   SpecRace      - two perform_sync threads on one staging path          *)
(*   SpecDelete    - delete_from_main                                      *)
(*   SpecSweep     - the leases with cleanup_old_entries                   *)
(*   SpecManager   - AsyncDownloadManager (app/utils/download_manager.py)  *)
(***************************************************************************)
EXTENDS Integers, Sequences, FiniteSets, TLC

VARIABLES replicas, mirror_active, thr,
          chunk_size, chunks, disk, uploads, plan, finished, last,
          local_active_downloads, active_count, xfer, decs, closes,
          total_bandwidth, allocated,
          job, local_file,
          status_file, poll, served,
          hb, lock_holder, beat, deaths,
          storage_used_mb, last_heartbeat,
          reply, stamps, now, dl, afh,
          catalog, configured,
          fetcher, staging,
          session, is_on_main_server

syncVars   == <<replicas, mirror_active, thr>>
uploadVars == <<chunk_size, chunks, disk, uploads, plan, finished, last>>
leaseVars  == <<local_active_downloads, active_count, xfer, decs, closes,
               total_bandwidth, allocated>>
fetchVars  == <<job, local_file>>
pollVars   == <<status_file, poll, served>>
hbVars     == <<hb, lock_holder, beat, deaths>>
mirrorVars == <<storage_used_mb, last_heartbeat>>
webVars    == <<reply, stamps, now, dl, afh>>
nodeVars   == <<catalog, configured>>
raceVars   == <<fetcher, staging>>
mgrVars    == <<session, is_on_main_server>>
vars       == <<syncVars, uploadVars, leaseVars, fetchVars, pollVars, hbVars, mirrorVars,
               webVars, nodeVars, raceVars, mgrVars>>

(***************************************************************************)
(* Bounds                                                                  *)
(***************************************************************************)
NumThreads == 2     \* calls of trigger_mirror_sync in a run
MaxLen     == 2     \* longest uploaded input, in bytes
NumTransfers == 2   \* streamed downloads of a run
NumPolls   == 3     \* requests to upload_status in a run
NumProcs   == 3     \* processes of a mirror node that load the application
MaxDeaths  == 2     \* process exits on a mirror node in a run
MaxCloses  == 3     \* close() calls on one lease handle

Files    == {1}
Mirrors  == {1, 2}
Threads  == 1..NumThreads
Sessions == {1, 2}
Transfers == 1..NumTransfers
Polls    == 1..NumPolls
Procs    == 1..NumProcs
Workers  == {1, 2}
Fetchers == {1, 2}

None == 0      \* Python None / "no row"
NoHeartbeat == -1   \* Mirror.last_heartbeat of a mirror that never sent one

(***************************************************************************)
(* Replica rows (models.py FileReplica).  The table is a sequence; the     *)
(* index of a row is its primary key.  There is no unique constraint on    *)
(* (upload_id, mirror_id).                                                 *)
(***************************************************************************)
FileReplica(u, m) ==
    [upload_id |-> u, mirror_id |-> m, status |-> "pending", error_message |-> "none"]

Rows == DOMAIN replicas

Matching(reps, u, m) ==
    {r \in DOMAIN reps : reps[r].upload_id = u /\ reps[r].mirror_id = m}

Min(S) == CHOOSE x \in S : \A y \in S : x <= y

\* FileReplica.query.filter_by(upload_id=u, mirror_id=m).first() on table reps
first(reps, u, m) == IF Matching(reps, u, m) = {} THEN None ELSE Min(Matching(reps, u, m))

\* .limit(n) over rows returned in primary-key order
RECURSIVE limit(_, _)
limit(S, n) == IF n = 0 \/ S = {} THEN {} ELSE {Min(S)} \cup limit(S \ {Min(S)}, n - 1)

AutoTargets == 2

\* lines 31-36: the mirrors a call dispatches to
select_mirrors(mirror_ids) ==
    IF mirror_ids = {}
    THEN limit({m \in Mirrors : mirror_active[m]}, AutoTargets)
    ELSE {m \in mirror_ids : mirror_active[m]}

IdleThread == [pc |-> "idle", upload |-> None, mirror |-> None, todo |-> {}, row |-> None]

\* a download that has not yet called create_limited_file
NewTransfer == [pc |-> "new", worker |-> None, exit |-> "none", old |-> FALSE]

\* a request to upload_status that has not arrived yet
NewPoll == [pc |-> "new", session |-> None, answer |-> "none"]

\* the keys of a job payload that perform_sync stores (trigger_mirror_sync
\* lines 69-78)
JobData(filename, file_size, md5_hash) ==
    [filename |-> filename, file_size |-> file_size, md5_hash |-> md5_hash]

\* a perform_sync thread at its first connection attempt: retries is the
\* loop variable of line 114; attempts counts the requests.get calls,
\* neterrs the attempts ended by a network error, otherfail tells whether
\* anything else went wrong (a response status other than 200, a checksum
\* mismatch, a report that failed); err is the exception text to report
\* (data is the payload of the job, runs the number of jobs the node has
\* started so far)
NewJob == [pc |-> "connect", retries |-> 0, attempts |-> 0, neterrs |-> 0,
           otherfail |-> FALSE, err |-> "none", data |-> JobData(1, 1, 1), runs |-> 1]

\* catalog[m] of a node whose uploads table has no row for the file
NoUpload == [filename |-> None, file_size |-> 0, md5_hash |-> None, status |-> "none"]

\* fetcher[t]: a perform_sync thread of the node of SpecRace before its job
\* has arrived; staging: the node's upload folder with no file
NoFetch == [pc |-> "none", fd |-> None, pos |-> 0, err |-> "none", lost |-> FALSE]
NoStaging == [path |-> None, files |-> << >>]

\* session: no DownloadSession has been created
NoSession == [status |-> "none", pc |-> "none", file_size |-> 0, progress |-> 0,
              client_connected |-> TRUE, chunks |-> << >>, limited_file |-> None,
              listed |-> FALSE, yielded |-> << >>]

\* reply: the latest answer of a handler of the mirror API or of
\* download_file
NoReply == [handler |-> "none", code |-> 0]

\* dl: the request download_file is serving
NoDownload == [pc |-> "none"]

\* afh: the latest call of verify_md5_against_afh
NoCheck == [pc |-> "none"]

\* last: status code, error and named indices of the latest answer of
\* complete_chunked_upload
NoResponse == [code |-> 0, error |-> "none", missing |-> {}]

\* No replica exists and no call is under way; mirrors are active or not.
\* The other subsystems are at rest: no upload session, file or staged
\* chunk (chunk_size stands for the 5 MB of init_chunked_upload), and
\* RateLimiter.__init__ for the pool (every worker process starts with an
\* empty local_active_downloads, the shared counter is 0).  xfer is the
\* position of each download; decs[l] counts the decrements remove_download
\* made for lease l and closes[l] the close() calls on its handle;
\* total_bandwidth[w] is the attribute of the pool object in worker w and
\* allocated[l] the speed the latest read of lease l was throttled to.
InitSync ==
    /\ replicas = << >>
    /\ mirror_active \in [Mirrors -> BOOLEAN]
    /\ thr = [t \in Threads |-> IdleThread]
    /\ chunk_size = 1
    /\ chunks = [s \in Sessions |-> << >>]
    /\ disk = << >>
    /\ uploads = << >>
    /\ plan = [s \in Sessions |-> << >>]
    /\ finished = {}
    /\ last = NoResponse
    /\ local_active_downloads = [w \in Workers |-> {}]
    /\ active_count = 0
    /\ xfer = [l \in Transfers |-> NewTransfer]
    /\ decs = [l \in Transfers |-> 0]
    /\ closes = [l \in Transfers |-> 0]
    /\ total_bandwidth = [w \in Workers |-> 0]
    /\ allocated = [l \in Transfers |-> 0]
    /\ job = [m \in Mirrors |-> NewJob]
    /\ local_file = [m \in Mirrors |-> "absent"]
    /\ status_file = [s \in Sessions |-> "absent"]
    /\ poll = [p \in Polls |-> NewPoll]
    /\ served = [s \in Sessions |-> 0]
    /\ hb = [p \in Procs |-> "absent"]
    /\ lock_holder = None
    /\ beat = {}
    /\ deaths = 0
    /\ storage_used_mb = [m \in Mirrors |-> 0]
    /\ last_heartbeat = [m \in Mirrors |-> NoHeartbeat]
    /\ reply = NoReply
    /\ stamps = << >>
    /\ now = 0
    /\ dl = NoDownload
    /\ afh = NoCheck
    /\ catalog = [m \in Mirrors |-> NoUpload]
    /\ configured = [m \in Mirrors |-> TRUE]
    /\ fetcher = [t \in Fetchers |-> NoFetch]
    /\ staging = NoStaging
    /\ session = NoSession
    /\ is_on_main_server = [u \in Files |-> TRUE]

(***************************************************************************)
(* trigger_mirror_sync(upload_id, mirror_ids), run by thread t.  An        *)
(* unknown upload_id returns 0 before any write (lines 27-29), so the call *)
(* is modelled for existing uploads.  The download URL (lines 38-51) is    *)
(* part of the job payload only and is not state.  A thread serves one     *)
(* call: NumThreads bounds the number of calls of a run.                   *)
(*                                                                         *)
(* Steps of a thread, per mirror of the loop at line 54:                   *)
(*   the query of line 56              (end of the step that enters the    *)
(*                                      iteration)                         *)
(*   set_pending      lines 57-62      insert if absent, 'pending', commit *)
(*   (pc = "dispatch": the request of lines 68-81 is under way)            *)
(*   commit_outcome   lines 83-98      status by the answer, commit        *)
(* The query is taken together with the step before it: that step writes   *)
(* no row of the mirror the query is about.                                *)
(***************************************************************************)
enter_iteration(t, reps, u, mirrors) ==
    [pc |-> "set_pending", upload |-> u, mirror |-> Min(mirrors),
     todo |-> mirrors \ {Min(mirrors)}, row |-> first(reps, u, Min(mirrors))]

trigger_mirror_sync(t, u, mirror_ids) ==
    /\ thr[t].pc = "idle"
    /\ select_mirrors(mirror_ids) # {}
    /\ thr' = [thr EXCEPT ![t] = enter_iteration(t, replicas, u, select_mirrors(mirror_ids))]
    /\ UNCHANGED <<replicas, mirror_active, uploadVars, leaseVars, fetchVars, pollVars, hbVars, mirrorVars, webVars, nodeVars, raceVars, mgrVars>>

\* lines 57-62: insert when absent, status = 'pending', commit
set_pending(t) ==
    /\ thr[t].pc = "set_pending"
    /\ IF thr[t].row = None
       THEN /\ replicas' = Append(replicas, FileReplica(thr[t].upload, thr[t].mirror))
            /\ thr' = [thr EXCEPT ![t].pc = "dispatch", ![t].row = Len(replicas) + 1]
       ELSE /\ replicas' = [replicas EXCEPT ![thr[t].row].status = "pending"]
            /\ thr' = [thr EXCEPT ![t].pc = "dispatch"]
    /\ UNCHANGED <<mirror_active, uploadVars, leaseVars, fetchVars, pollVars, hbVars, mirrorVars, webVars, nodeVars, raceVars, mgrVars>>

\* the answers of requests.post (lines 68-81): status 200, another status,
\* or an exception such as a timeout
DispatchOutcomes == {"ok200", "rejected", "exception"}

\* a dispatcher that marks the replica syncing as soon as the request was
\* sent, whatever the answer
outcome_status_optimistic(resp) == "syncing"

\* lines 83-98: the status written for a dispatch answer
outcome_status(resp) == IF resp = "ok200" THEN "syncing" ELSE "error"

\* lines 89 and 96: the message written with an error (its text, built from
\* the response or the exception, is abstracted to its origin); line 84
\* leaves the message of an accepted job as it was
outcome_message(resp, old) == IF resp = "ok200" THEN old ELSE "dispatch error"

\* lines 83-98 for the answer resp of the request, then the query of the
\* next iteration
commit_outcome(t, resp) ==
    /\ thr[t].pc = "dispatch"
    /\ replicas' = [replicas EXCEPT
           ![thr[t].row].status = outcome_status(resp),
           ![thr[t].row].error_message = outcome_message(resp, @)]
    /\ IF thr[t].todo = {}
       THEN thr' = [thr EXCEPT ![t] = [IdleThread EXCEPT !.pc = "done"]]
       ELSE thr' = [thr EXCEPT ![t] = enter_iteration(t, replicas', thr[t].upload, thr[t].todo)]
    /\ UNCHANGED <<mirror_active, uploadVars, leaseVars, fetchVars, pollVars, hbVars, mirrorVars, webVars, nodeVars, raceVars, mgrVars>>

\* the status values perform_sync reports (mirror_api.py lines 195, 236)
PayloadStatus == {"synced", "error"}

\* sync_complete for a request authenticated as mirror m (a key that matches
\* no mirror is answered 401 before any write, lines 62-65)
sync_complete(m, u, status) ==
    /\ LET r == first(replicas, u, m) IN
        /\ r # None
        /\ replicas' = [replicas EXCEPT
               ![r].status = status,
               ![r].error_message = IF status = "synced" THEN "none" ELSE "mirror error"]
    /\ UNCHANGED <<mirror_active, thr, uploadVars, leaseVars, fetchVars, pollVars, hbVars, mirrorVars, webVars, nodeVars, raceVars, mgrVars>>

\* writes the report to every replica of the file
sync_complete_request_by_file(m, u, status, error_msg) ==
    IF first(replicas, u, m) = None
    THEN UNCHANGED replicas
    ELSE replicas' = [r \in DOMAIN replicas |->
             IF replicas[r].upload_id = u
             THEN [replicas[r] EXCEPT !.status = status, !.error_message = error_msg]
             ELSE replicas[r]]

\* the writes of sync_complete (lines 67-78) for a request of mirror m that
\* carries error_message error_msg; without a replica nothing is written
sync_complete_request(m, u, status, error_msg) ==
    IF first(replicas, u, m) = None
    THEN UNCHANGED replicas
    ELSE replicas' = [replicas EXCEPT
             ![first(replicas, u, m)].status = status,
             ![first(replicas, u, m)].error_message = error_msg]

NextSync ==
    \/ \E t \in Threads, u \in Files, ids \in SUBSET Mirrors : trigger_mirror_sync(t, u, ids)
    \/ \E t \in Threads : set_pending(t)
    \/ \E t \in Threads, resp \in DispatchOutcomes : commit_outcome(t, resp)
    \/ \E m \in Mirrors, u \in Files, s \in PayloadStatus : sync_complete(m, u, s)

(***************************************************************************)
(* Chunked upload (app/routes/api.py).  Only the second definition of      *)
(* complete_chunked_upload (line 346) carries the route decorator and is   *)
(* the view of /upload-complete; the undecorated definition at line 159    *)
(* (with process_upload_async) is rebound by it and never called.          *)
(***************************************************************************)
Byte     == {0, 1}
Inputs   == UNION {[1..l -> Byte] : l \in 1..MaxLen}

NoHash == -1     \* fileHash '' (none supplied)

\* calculate_md5: the digest of a byte sequence, deterministic and free of
\* collisions on the bounded inputs (digests are numbers, 0 for no bytes)
RECURSIVE calculate_md5(_)
calculate_md5(b) ==
    IF b = << >> THEN 0
    ELSE 3 * calculate_md5(SubSeq(b, 1, Len(b) - 1)) + b[Len(b)] + 1

\* init_chunked_upload lines 486-487
total_chunks_of(file_size) == (file_size + chunk_size - 1) \div chunk_size

\* the client's fragment i of its input
Fragment(data, i) ==
    SubSeq(data, i * chunk_size + 1,
           IF (i + 1) * chunk_size < Len(data) THEN (i + 1) * chunk_size ELSE Len(data))

\* init_chunked_upload: the server fixes the fragment size and count and
\* hands out a fresh session id (sessions are taken in order); it stores
\* nothing.  plan[s] is the input the client of session s is about to send.
init_chunked_upload(s, data) ==
    /\ plan[s] = << >>
    /\ \A c \in Sessions : c < s => plan[c] # << >>
    /\ plan' = [plan EXCEPT ![s] = data]
    /\ UNCHANGED <<chunk_size, chunks, disk, uploads, finished, last, syncVars, leaseVars, fetchVars, pollVars, hbVars, mirrorVars, webVars, nodeVars, raceVars, mgrVars>>

\* appends the bytes to a chunk file that exists
save_chunk_append(dir, i, b) ==
    IF i \in DOMAIN dir THEN (i :> (dir[i] \o b)) @@ dir ELSE (i :> b) @@ dir

\* upload_chunk lines 319-327: chunk_file.save(chunks_dir/chunk_<index>)
save_chunk(dir, i, b) == (i :> b) @@ dir

\* a client sends the fragments of its input, in any order and any number
\* of times, until the server has removed the staging area of its session
upload_chunk(s, i) ==
    /\ plan[s] # << >>
    /\ s \notin finished
    /\ i \in 0..(total_chunks_of(Len(plan[s])) - 1)
    /\ chunks' = [chunks EXCEPT ![s] = save_chunk(@, i, Fragment(plan[s], i))]
    /\ UNCHANGED <<chunk_size, disk, uploads, plan, finished, last, syncVars, leaseVars, fetchVars, pollVars, hbVars, mirrorVars, webVars, nodeVars, raceVars, mgrVars>>

\* names only the lowest missing index
missing_chunks_first_only(dir, total) ==
    LET all == {i \in 0..(total - 1) : i \notin DOMAIN dir}
    IN  IF all = {} THEN {} ELSE {Min(all)}

\* lines 381-387
missing_chunks(dir, total) == {i \in 0..(total - 1) : i \notin DOMAIN dir}

\* concatenates the chunks from the highest index down
RECURSIVE assemble_descending(_, _)
assemble_descending(dir, n) ==
    IF n = 0 THEN << >> ELSE dir[n - 1] \o assemble_descending(dir, n - 1)

\* lines 400-410: chunks 0..n-1 appended in increasing index order
RECURSIVE assemble(_, _)
assemble(dir, n) ==
    IF n = 0 THEN << >> ELSE assemble(dir, n - 1) \o dir[n - 1]

\* admits the file without comparing the supplied hash
integrity_failed_unchecked(md5_hash, file_hash) == FALSE

\* line 416
integrity_failed(md5_hash, file_hash) == file_hash # NoHash /\ md5_hash # file_hash

\* lines 423-435; status takes the column default (models.py line 45) and
\* the uuid file name is the number of the row
Upload(filename, total_size, md5_hash) ==
    [filename |-> filename, file_size |-> total_size, md5_hash |-> md5_hash,
     status |-> "pending"]

Response(code, error, missing) == [code |-> code, error |-> error, missing |-> missing]

\* complete_chunked_upload lines 346-451 for a request whose metadata passes
\* the checks of lines 362-373
complete_chunked_upload(s, total, file_hash) ==
    /\ IF chunks[s] = << >>
       THEN /\ last' = Response(404, "Chunks not found", {})
            /\ UNCHANGED <<chunks, disk, uploads, finished>>
       ELSE IF missing_chunks(chunks[s], total) # {}
       THEN /\ last' = Response(400, "Missing chunks", missing_chunks(chunks[s], total))
            /\ UNCHANGED <<chunks, disk, uploads, finished>>
       ELSE LET data     == assemble(chunks[s], total)
                md5_hash == calculate_md5(data)
                filename == Len(uploads) + 1
            IN  IF integrity_failed(md5_hash, file_hash)
                THEN /\ last' = Response(400, "File integrity check failed", {})
                     /\ chunks' = [chunks EXCEPT ![s] = << >>]
                     /\ finished' = finished \cup {s}
                     /\ UNCHANGED <<disk, uploads>>
                ELSE /\ uploads' = Append(uploads, Upload(filename, Len(data), md5_hash))
                     /\ disk' = (filename :> data) @@ disk
                     /\ chunks' = [chunks EXCEPT ![s] = << >>]
                     /\ finished' = finished \cup {s}
                     /\ last' = Response(200, "none", {})
    /\ UNCHANGED <<chunk_size, plan, syncVars, leaseVars, fetchVars, pollVars, hbVars, mirrorVars, webVars, nodeVars, raceVars, mgrVars>>

\* the totalChunks and fileHash values a request may carry: any count up to
\* one more than the longest input needs; no hash, the digest of the
\* client's input, or the digest of other content
Totals == 0..(MaxLen + 1)
Hashes(s) == {NoHash, calculate_md5(plan[s]), calculate_md5(<< >>)}

\* fileHash is read only once all chunks were found (line 416): before that
\* one value stands for all
HashesRead(s, total) ==
    IF chunks[s] = << >> \/ missing_chunks(chunks[s], total) # {} THEN {NoHash} ELSE Hashes(s)

NextUpload ==
    \/ \E s \in Sessions, data \in Inputs : init_chunked_upload(s, data)
    \/ \E s \in Sessions, i \in 0..(MaxLen - 1) : upload_chunk(s, i)
    \/ \E s \in Sessions, total \in Totals : \E h \in HashesRead(s, total) :
            complete_chunked_upload(s, total, h)

\* no session, staged chunk or file; the fragment size the server hands out
\* is any of 1..MaxLen bytes; all mirrors active, pool at rest
InitUpload ==
    /\ chunk_size \in 1..MaxLen
    /\ chunks = [s \in Sessions |-> << >>]
    /\ disk = << >>
    /\ uploads = << >>
    /\ plan = [s \in Sessions |-> << >>]
    /\ finished = {}
    /\ last = NoResponse
    /\ replicas = << >>
    /\ mirror_active = [m \in Mirrors |-> TRUE]
    /\ thr = [t \in Threads |-> IdleThread]
    /\ local_active_downloads = [w \in Workers |-> {}]
    /\ active_count = 0
    /\ xfer = [l \in Transfers |-> NewTransfer]
    /\ decs = [l \in Transfers |-> 0]
    /\ closes = [l \in Transfers |-> 0]
    /\ total_bandwidth = [w \in Workers |-> 0]
    /\ allocated = [l \in Transfers |-> 0]
    /\ job = [m \in Mirrors |-> NewJob]
    /\ local_file = [m \in Mirrors |-> "absent"]
    /\ status_file = [s \in Sessions |-> "absent"]
    /\ poll = [p \in Polls |-> NewPoll]
    /\ served = [s \in Sessions |-> 0]
    /\ hb = [p \in Procs |-> "absent"]
    /\ lock_holder = None
    /\ beat = {}
    /\ deaths = 0
    /\ storage_used_mb = [m \in Mirrors |-> 0]
    /\ last_heartbeat = [m \in Mirrors |-> NoHeartbeat]
    /\ reply = NoReply
    /\ stamps = << >>
    /\ now = 0
    /\ dl = NoDownload
    /\ afh = NoCheck
    /\ catalog = [m \in Mirrors |-> NoUpload]
    /\ configured = [m \in Mirrors |-> TRUE]
    /\ fetcher = [t \in Fetchers |-> NoFetch]
    /\ staging = NoStaging
    /\ session = NoSession
    /\ is_on_main_server = [u \in Files |-> TRUE]

\* RateLimiter.__init__ for the pool; no replica, upload session or file
InitLease ==
    /\ local_active_downloads = [w \in Workers |-> {}]
    /\ active_count = 0
    /\ xfer = [l \in Transfers |-> NewTransfer]
    /\ decs = [l \in Transfers |-> 0]
    /\ closes = [l \in Transfers |-> 0]
    /\ total_bandwidth = [w \in Workers |-> 0]
    /\ allocated = [l \in Transfers |-> 0]
    /\ job = [m \in Mirrors |-> NewJob]
    /\ local_file = [m \in Mirrors |-> "absent"]
    /\ status_file = [s \in Sessions |-> "absent"]
    /\ poll = [p \in Polls |-> NewPoll]
    /\ served = [s \in Sessions |-> 0]
    /\ hb = [p \in Procs |-> "absent"]
    /\ lock_holder = None
    /\ beat = {}
    /\ deaths = 0
    /\ storage_used_mb = [m \in Mirrors |-> 0]
    /\ last_heartbeat = [m \in Mirrors |-> NoHeartbeat]
    /\ reply = NoReply
    /\ stamps = << >>
    /\ now = 0
    /\ dl = NoDownload
    /\ afh = NoCheck
    /\ catalog = [m \in Mirrors |-> NoUpload]
    /\ configured = [m \in Mirrors |-> TRUE]
    /\ fetcher = [t \in Fetchers |-> NoFetch]
    /\ staging = NoStaging
    /\ session = NoSession
    /\ is_on_main_server = [u \in Files |-> TRUE]
    /\ replicas = << >>
    /\ mirror_active = [m \in Mirrors |-> TRUE]
    /\ thr = [t \in Threads |-> IdleThread]
    /\ chunk_size = 1
    /\ chunks = [s \in Sessions |-> << >>]
    /\ disk = << >>
    /\ uploads = << >>
    /\ plan = [s \in Sessions |-> << >>]
    /\ finished = {}
    /\ last = NoResponse

SpecSync == InitSync /\ [][NextSync]_vars

(***************************************************************************)
(* Replica state machine: claims                                           *)
(***************************************************************************)

\* C1: a replica whose status is synced keeps that status in every step
\* (no trigger, dispatch outcome or callback takes it back to pending,
\* syncing or error).
C1_NoRegressFromSynced ==
    [][\A r \in Rows : replicas[r].status = "synced" => replicas'[r].status = "synced"]_vars

AllowedSteps == {<<"pending", "syncing">>, <<"pending", "error">>,
                 <<"syncing", "synced">>, <<"syncing", "error">>,
                 <<"error", "syncing">>}

\* C2: every change of a replica's status is one of pending->syncing,
\* pending->error, syncing->synced, syncing->error, error->syncing.
C2_OnlyAllowedSteps ==
    [][\A r \in Rows : replicas'[r].status # replicas[r].status
            => <<replicas[r].status, replicas'[r].status>> \in AllowedSteps]_vars

\* C3: at most one replica row exists for each (file, mirror) pair.
C3_OneReplicaPerPair ==
    \A u \in Files, m \in Mirrors : Cardinality(Matching(replicas, u, m)) <= 1

C4_CommitWrites ==
    \A t \in Threads, resp \in DispatchOutcomes : commit_outcome(t, resp) =>
        IF resp = "ok200"
        THEN replicas'[thr[t].row].status = "syncing"
        ELSE /\ replicas'[thr[t].row].status = "error"
             /\ replicas'[thr[t].row].error_message # "none"

C4_PendingFirst ==
    \A t \in Threads : set_pending(t) =>
        /\ replicas'[thr'[t].row].status = "pending"
        /\ thr'[t].pc = "dispatch"

C4_SyncingOnlyOn200 ==
    \A r \in Rows : (replicas[r].status # "syncing" /\ replicas'[r].status = "syncing") =>
        \E t \in Threads : thr[t].row = r /\ commit_outcome(t, "ok200")

\* C4: a dispatch that was not answered 200 (another status, or an
\* exception) sets the replica to error with an error message; the
\* dispatching call writes pending when it creates or finds the replica and
\* nothing else before the answer is committed; a replica becomes syncing
\* only in the commit of a dispatch that the mirror answered with 200.
C4_FailedDispatchIsError ==
    [][C4_CommitWrites /\ C4_PendingFirst /\ C4_SyncingOnlyOn200]_vars

\* a call has finished after a failed dispatch left its replica in error
C4_Witness ==
    \E t \in Threads, r \in Rows :
        /\ thr[t].pc = "done"
        /\ replicas[r].status = "error"
        /\ replicas[r].error_message = "dispatch error"

\* the row holds what a sync_complete callback wrote
CallbackRecorded(r) ==
    \/ replicas[r].status = "synced"
    \/ replicas[r].status = "error" /\ replicas[r].error_message = "mirror error"

\* C35: when the mirror's callback for a dispatched job is processed before
\* the dispatching call commits the outcome of the dispatch, the commit of a
\* 200 answer leaves the status the callback recorded as it is.
C35_DispatchKeepsCallbackResult ==
    [][\A t \in Threads :
          (commit_outcome(t, "ok200") /\ CallbackRecorded(thr[t].row))
              => replicas'[thr[t].row].status = replicas[thr[t].row].status]_vars

SpecUpload == InitUpload /\ [][NextUpload]_vars

(***************************************************************************)
(* Chunked upload: claims                                                  *)
(***************************************************************************)

\* C5: an upload whose checksum equals that of an earlier File with status
\* approved or pending is recorded as rejected and its bytes are not kept
\* on disk.
C5_DuplicateRejected ==
    \A i, j \in DOMAIN uploads :
        (i < j /\ uploads[i].md5_hash = uploads[j].md5_hash
               /\ uploads[i].status \in {"approved", "pending"})
        => (uploads[j].status = "rejected" /\ uploads[j].filename \notin DOMAIN disk)

\* C37: at any time at most one File whose status is pending or approved
\* exists for a checksum, also after two uploads of the same bytes.
C37_OneLiveFilePerChecksum ==
    \A i, j \in DOMAIN uploads :
        (/\ uploads[i].status \in {"approved", "pending"}
         /\ uploads[j].status \in {"approved", "pending"}
         /\ uploads[i].md5_hash = uploads[j].md5_hash) => i = j

\* every fragment of the input of session s is staged under its index
AllSent(s) ==
    \A i \in 0..(total_chunks_of(Len(plan[s])) - 1) :
        i \in DOMAIN chunks[s] /\ chunks[s][i] = Fragment(plan[s], i)

\* C6: when all fragments 0..n-1 of an input are staged and complete is
\* called with that count (and no hash or the input's hash), a File is
\* created whose stored bytes equal the input and whose recorded size is
\* the input's length, for every input and every fragment size.
C6_AssemblyEqualsInput ==
    [][\A s \in Sessions :
          (plan[s] # << >> /\ AllSent(s)) =>
            \A h \in {NoHash, calculate_md5(plan[s])} :
              complete_chunked_upload(s, total_chunks_of(Len(plan[s])), h)
              => (/\ Len(uploads') = Len(uploads) + 1
                  /\ disk'[uploads'[Len(uploads')].filename] = plan[s]
                  /\ uploads'[Len(uploads')].file_size = Len(plan[s])
                  /\ uploads'[Len(uploads')].md5_hash = calculate_md5(plan[s]))]_vars

\* an input of two different bytes sent as two fragments has been assembled
C6_Witness ==
    /\ last.code = 200
    /\ chunk_size = 1
    /\ \E s \in Sessions, u \in DOMAIN uploads :
        /\ Len(plan[s]) >= 2 /\ plan[s][1] # plan[s][2]
        /\ chunks[s] = << >>
        /\ disk[uploads[u].filename] = plan[s]

ExpectedMissing(s, total) == {i \in 0..(total - 1) : i \notin DOMAIN chunks[s]}

C8_IntegrityFailureCleansUp ==
    [][\A s \in Sessions :
          chunks[s] # << >> =>
            \A total \in Totals :
              ExpectedMissing(s, total) = {} =>
                \A h \in Hashes(s) \ {NoHash, calculate_md5(assemble(chunks[s], total))} :
                  complete_chunked_upload(s, total, h)
                  => (/\ last'.code = 400
                      /\ last'.error = "File integrity check failed"
                      /\ UNCHANGED <<uploads, disk>>
                      /\ chunks'[s] = << >>)]_vars

\* an upload was refused for its hash although a File with the digest of
\* its complete input exists
C8_Witness ==
    /\ last.error = "File integrity check failed"
    /\ \E s \in Sessions, u \in DOMAIN uploads :
        /\ plan[s] # << >>
        /\ chunks[s] = << >>
        /\ uploads[u].md5_hash = calculate_md5(plan[s])

(***************************************************************************)
(* Bandwidth pool (app/utils/rate_limiter.py).  A lease is the entry of a  *)
(* download_id in the local_active_downloads of its worker process plus    *)
(* one unit of the shared active_count.  The lease of transfer l has       *)
(* download_id l (uuid4 ids are distinct).  cleanup_old_entries has no     *)
(* caller in the application and is not a step of this specification.      *)
(***************************************************************************)

\* the cap of the pool: the configured speed limit every caller of one pool
\* passes (api.py lines 101-117), in units that make the division by each
\* reachable count exact
Cap == 12

\* create_limited_file lines 117-126: the cap is stored in the worker's pool
\* object and the entry is stored under self.lock
create_limited_file_register(l, w) ==
    /\ xfer[l].pc = "new"
    /\ total_bandwidth' = [total_bandwidth EXCEPT ![w] = Cap]
    /\ local_active_downloads' = [local_active_downloads EXCEPT ![w] = @ \cup {l}]
    /\ xfer' = [xfer EXCEPT ![l].pc = "registered", ![l].worker = w]
    /\ UNCHANGED <<active_count, decs, closes, allocated, syncVars, uploadVars, fetchVars, pollVars, hbVars, mirrorVars, webVars, nodeVars, raceVars, mgrVars>>

\* an increment that reads the counter, lets another acquisition run and
\* writes back: of two acquisitions under way only one is counted
create_limited_file_count_racy(l) ==
    /\ xfer[l].pc = "registered"
    /\ active_count' = IF \E k \in Transfers \ {l} : xfer[k].pc = "registered"
                       THEN active_count ELSE active_count + 1
    /\ xfer' = [xfer EXCEPT ![l].pc = "counted"]
    /\ UNCHANGED <<local_active_downloads, decs, closes, total_bandwidth, allocated,
                   syncVars, uploadVars, fetchVars, pollVars, hbVars, mirrorVars, webVars, nodeVars, raceVars, mgrVars>>

\* create_limited_file lines 129-130: increment under the lock of the
\* multiprocessing.Value, which the worker processes forked from the
\* preloaded application share (gunicorn.conf.py line 19)
create_limited_file_count(l) ==
    /\ xfer[l].pc = "registered"
    /\ active_count' = active_count + 1
    /\ xfer' = [xfer EXCEPT ![l].pc = "counted"]
    /\ UNCHANGED <<local_active_downloads, decs, closes, total_bandwidth, allocated,
                   syncVars, uploadVars, fetchVars, pollVars, hbVars, mirrorVars, webVars, nodeVars, raceVars, mgrVars>>

\* create_limited_file lines 132-133: open(file_path, 'rb').  When it
\* succeeds the handle is returned and the read loop starts; when it raises,
\* the exception leaves create_limited_file, no handle exists and the caller
\* only logs it (api.py line 129, download_manager.py line 182).
create_limited_file_open(l, opened) ==
    /\ xfer[l].pc = "counted"
    /\ xfer' = [xfer EXCEPT ![l].pc = IF opened THEN "reading" ELSE "failed",
                            ![l].exit = IF opened THEN "none" ELSE "open_error"]
    /\ UNCHANGED <<local_active_downloads, active_count, decs, closes, total_bandwidth,
                   allocated, syncVars, uploadVars, fetchVars, pollVars, hbVars, mirrorVars, webVars, nodeVars, raceVars, mgrVars>>

\* decrements for every call, whether or not the lease is still registered
remove_download_unguarded(w, l) ==
    /\ local_active_downloads' = [local_active_downloads EXCEPT ![w] = @ \ {l}]
    /\ IF active_count > 0
       THEN active_count' = active_count - 1 /\ decs' = [decs EXCEPT ![l] = @ + 1]
       ELSE UNCHANGED <<active_count, decs>>

\* remove_download lines 151-159, in worker process w
remove_download(w, l) ==
    IF l \in local_active_downloads[w]
    THEN /\ local_active_downloads' = [local_active_downloads EXCEPT ![w] = @ \ {l}]
         /\ IF active_count > 0
            THEN active_count' = active_count - 1 /\ decs' = [decs EXCEPT ![l] = @ + 1]
            ELSE UNCHANGED <<active_count, decs>>
    ELSE UNCHANGED <<local_active_downloads, active_count, decs>>

\* BandwidthLimitedFile.close lines 44-47 (closing the file object twice is
\* harmless)
close(l) ==
    /\ remove_download(xfer[l].worker, l)
    /\ closes' = [closes EXCEPT ![l] = @ + 1]

\* hands every lease the whole cap
get_allocated_speed_undivided(w) == total_bandwidth[w]

\* get_allocated_speed lines 135-149, in worker process w
get_allocated_speed(w) ==
    IF active_count <= 0 THEN total_bandwidth[w] ELSE total_bandwidth[w] \div active_count

\* BandwidthLimitedFile.read lines 18-42 returning data: the read is
\* throttled to the speed allocated at this moment.  A read of a handle
\* that was closed raises at line 20 and is the "read_error" exit.
read(l) ==
    /\ xfer[l].pc = "reading"
    /\ closes[l] = 0
    /\ allocated' = [allocated EXCEPT ![l] = get_allocated_speed(xfer[l].worker)]
    /\ UNCHANGED <<local_active_downloads, active_count, xfer, decs, closes, total_bandwidth,
                   syncVars, uploadVars, fetchVars, pollVars, hbVars, mirrorVars, webVars, nodeVars, raceVars, mgrVars>>

\* the ways a read loop ends: all bytes sent, an exception of seek/read, the
\* client closing the stream (GeneratorExit at the yield)
LoopExits == {"eof", "read_error", "disconnect"}

\* the read loop of transfer l ends; the `with f` block (api.py line 119) or
\* the finally block (download_manager.py lines 187-193) closes the handle
end_read(l, how) ==
    /\ xfer[l].pc = "reading"
    /\ closes[l] < MaxCloses
    /\ close(l)
    /\ xfer' = [xfer EXCEPT ![l].pc = "ended", ![l].exit = how]
    /\ UNCHANGED <<total_bandwidth, allocated, syncVars, uploadVars, fetchVars, pollVars, hbVars, mirrorVars, webVars, nodeVars, raceVars, mgrVars>>

\* a further close() of the same handle: cancel_download (download_manager.py
\* lines 125-129) while the worker still reads, _cleanup_session (lines
\* 201-205) once it has ended
close_again(l) ==
    /\ xfer[l].pc \in {"reading", "ended"}
    /\ closes[l] < IF xfer[l].pc = "reading" THEN MaxCloses - 1 ELSE MaxCloses
    /\ close(l)
    /\ UNCHANGED <<xfer, total_bandwidth, allocated, syncVars, uploadVars, fetchVars, pollVars, hbVars, mirrorVars, webVars, nodeVars, raceVars, mgrVars>>

NextLease ==
    \/ \E l \in Transfers, w \in Workers : create_limited_file_register(l, w)
    \/ \E l \in Transfers : create_limited_file_count(l)
    \/ \E l \in Transfers, opened \in BOOLEAN : create_limited_file_open(l, opened)
    \/ \E l \in Transfers : read(l)
    \/ \E l \in Transfers, how \in LoopExits : end_read(l, how)
    \/ \E l \in Transfers : close_again(l)

SpecLease == InitLease /\ [][NextLease]_vars

(***************************************************************************)
(* Bandwidth pool: claims                                                  *)
(***************************************************************************)

AllEnded == \A l \in Transfers : xfer[l].pc \in {"new", "ended", "failed"}

\* C9: once every transfer of the pool has ended (all bytes sent, read
\* error, client disconnect, or a failure to open the file during
\* acquisition), the shared active-lease count is 0.
C9_AllLeasesReleased == AllEnded => active_count = 0

C10_ReleasedOnce ==
    \A l \in Transfers :
        /\ decs[l] <= 1
        /\ closes[l] >= 1 => decs[l] = 1

C10_CloseStep ==
    \A l \in Transfers : closes'[l] # closes[l] =>
        /\ active_count' = active_count - (IF closes[l] = 0 THEN 1 ELSE 0)
        /\ \A w \in Workers :
              local_active_downloads'[w] = local_active_downloads[w] \ {l}

\* C10: however often close / remove_download is called for one lease, the
\* calls lower the shared count by exactly one in total (the first call by
\* one, every later call by nothing), and a call removes no entry of
\* another lease.
C10_ReleaseIdempotent == []C10_ReleasedOnce /\ [][C10_CloseStep]_vars

\* a lease was closed more than once while another lease is still held
C10_Witness ==
    \E l, k \in Transfers :
        /\ closes[l] >= 2 /\ decs[l] = 1
        /\ xfer[k].pc = "reading" /\ closes[k] = 0
        /\ k \in local_active_downloads[xfer[k].worker]
        /\ active_count = 1

\* the leases registered in the pool, summed over the worker processes
LeasesHeld ==
    Cardinality({wl \in Workers \X Transfers : wl[2] \in local_active_downloads[wl[1]]})

\* no create_limited_file is between its first statement and its return
\* (remove_download is one step)
NoAcquireInProgress == \A l \in Transfers : xfer[l].pc \notin {"registered", "counted"}

\* C11: whenever no acquire or release is in progress, the shared count
\* equals the number of leases registered and not yet released, summed over
\* all worker processes, under every interleaving of the transfers.
C11_NoLostUpdate == NoAcquireInProgress => active_count = LeasesHeld

\* two transfers of different worker processes hold a lease each
C11_Witness ==
    /\ NoAcquireInProgress
    /\ \E l, k \in Transfers :
        /\ xfer[l].pc = "reading" /\ xfer[k].pc = "reading"
        /\ xfer[l].worker # xfer[k].worker
        /\ closes[l] = 0 /\ closes[k] = 0
    /\ active_count = 2

max_retries == 5

\* both mirrors accepted the job for file 1 with 200: their replicas are
\* syncing and the dispatching call has returned
InitFetch ==
    /\ replicas = [r \in 1..2 |-> [FileReplica(1, r) EXCEPT !.status = "syncing"]]
    /\ mirror_active = [m \in Mirrors |-> TRUE]
    /\ thr = [t \in Threads |-> IdleThread]
    /\ job = [m \in Mirrors |-> NewJob]
    /\ local_file = [m \in Mirrors |-> "absent"]
    /\ status_file = [s \in Sessions |-> "absent"]
    /\ poll = [p \in Polls |-> NewPoll]
    /\ served = [s \in Sessions |-> 0]
    /\ hb = [p \in Procs |-> "absent"]
    /\ lock_holder = None
    /\ beat = {}
    /\ deaths = 0
    /\ storage_used_mb = [m \in Mirrors |-> 0]
    /\ last_heartbeat = [m \in Mirrors |-> NoHeartbeat]
    /\ reply = NoReply
    /\ stamps = << >>
    /\ now = 0
    /\ dl = NoDownload
    /\ afh = NoCheck
    /\ catalog = [m \in Mirrors |-> NoUpload]
    /\ configured = [m \in Mirrors |-> TRUE]
    /\ fetcher = [t \in Fetchers |-> NoFetch]
    /\ staging = NoStaging
    /\ session = NoSession
    /\ is_on_main_server = [u \in Files |-> TRUE]
    /\ chunk_size = 1
    /\ chunks = [s \in Sessions |-> << >>]
    /\ disk = << >>
    /\ uploads = << >>
    /\ plan = [s \in Sessions |-> << >>]
    /\ finished = {}
    /\ last = NoResponse
    /\ local_active_downloads = [w \in Workers |-> {}]
    /\ active_count = 0
    /\ xfer = [l \in Transfers |-> NewTransfer]
    /\ decs = [l \in Transfers |-> 0]
    /\ closes = [l \in Transfers |-> 0]
    /\ total_bandwidth = [w \in Workers |-> 0]
    /\ allocated = [l \in Transfers |-> 0]

\* the ends of requests.get (lines 117-133): status 200, a status of
\* 502/503/504, another status, or an exception (no connection, timeout)
ConnectAnswers == {"200", "gateway_error", "other_status", "network_error"}

\* lines 127-142 for an attempt that did not end with status 200: the
\* exception raised for another status is caught at line 132 like a network
\* error; retries is incremented and the loop goes on while it is below
\* max_retries, otherwise line 142 raises
after_failed_attempt(j, answer) ==
    [j EXCEPT !.retries = @ + 1, !.attempts = @ + 1,
              !.neterrs = IF answer = "network_error" THEN @ + 1 ELSE @,
              !.otherfail = @ \/ answer # "network_error",
              !.pc = IF j.retries + 1 < max_retries THEN "connect" ELSE "report_error",
              !.err = IF j.retries + 1 < max_retries THEN j.err ELSE "connect failed"]

\* one pass of the loop of lines 116-139
connect_attempt(m, answer) ==
    /\ job[m].pc = "connect"
    /\ job' = [job EXCEPT ![m] =
                 IF answer = "200"
                 THEN [job[m] EXCEPT !.attempts = @ + 1, !.pc = "stream"]
                 ELSE after_failed_attempt(job[m], answer)]
    /\ UNCHANGED <<local_file, syncVars, uploadVars, leaseVars, pollVars, hbVars, mirrorVars, webVars, nodeVars, raceVars, mgrVars>>

\* what iter_content delivers: the bytes with the declared checksum, other
\* bytes (cut short or altered), or a network error in the middle
StreamResults == {"declared_bytes", "other_bytes", "network_error"}

\* lines 145-170: the body is written to local_path; an exception of
\* iter_content leaves the partly written file and goes to the handler of
\* line 229 (progress reports, whose failures are ignored, are no state)
stream(m, result) ==
    /\ job[m].pc = "stream"
    /\ IF result = "network_error"
       THEN /\ local_file' = [local_file EXCEPT ![m] = "partial"]
            /\ job' = [job EXCEPT ![m].pc = "report_error", ![m].err = "stream error",
                                  ![m].neterrs = @ + 1]
       ELSE /\ local_file' = [local_file EXCEPT ![m] =
                                IF result = "declared_bytes" THEN "good" ELSE "bad"]
            /\ job' = [job EXCEPT ![m].pc = "verify"]
    /\ UNCHANGED <<syncVars, uploadVars, leaseVars, pollVars, hbVars, mirrorVars, webVars, nodeVars, raceVars, mgrVars>>

\* lines 177-183: the digest of the stored bytes against the declared one
md5_differs(stored) == stored # "good"

\* lines 177-189
verify(m) ==
    /\ job[m].pc = "verify"
    /\ job' = [job EXCEPT ![m] =
                 IF md5_differs(local_file[m])
                 THEN [job[m] EXCEPT !.pc = "report_error", !.err = "MD5 mismatch",
                                     !.otherfail = TRUE]
                 ELSE [job[m] EXCEPT !.pc = "report_synced"]]
    /\ UNCHANGED <<local_file, syncVars, uploadVars, leaseVars, pollVars, hbVars, mirrorVars, webVars, nodeVars, raceVars, mgrVars>>

\* the ends of a requests.post to sync_complete: the primary handled it and
\* answered, the request never arrived, or the primary handled it and the
\* answer did not come back in time
ReportDeliveries == {"delivered", "lost", "answer_lost"}

\* lines 206-221: the row of the mirror's own catalog for the job's file
local_upload(data) ==
    [filename |-> data.filename, file_size |-> data.file_size, md5_hash |-> data.md5_hash,
     status |-> "approved"]

\* lines 191-197, and after a delivered report the update of the mirror's
\* own catalog (lines 201-227), which cannot fail the job; an exception of
\* the request goes to the handler of line 229
report_synced(m, delivery) ==
    /\ job[m].pc = "report_synced"
    /\ IF delivery = "lost"
       THEN UNCHANGED replicas
       ELSE sync_complete_request(m, 1, "synced", "none")
    /\ job' = [job EXCEPT ![m] =
                 IF delivery = "delivered"
                 THEN [job[m] EXCEPT !.pc = "done"]
                 ELSE [job[m] EXCEPT !.pc = "report_error", !.err = "report failed",
                                     !.otherfail = TRUE]]
    /\ catalog' = IF delivery = "delivered"
                  THEN [catalog EXCEPT ![m] = local_upload(job[m].data)]
                  ELSE catalog
    /\ UNCHANGED <<local_file, mirror_active, thr, uploadVars, leaseVars, pollVars, hbVars,
                   mirrorVars, webVars, configured, raceVars, mgrVars>>

\* lines 229-240: the error report; its own failure is only logged
report_error(m, delivery) ==
    /\ job[m].pc = "report_error"
    /\ IF delivery = "lost"
       THEN UNCHANGED replicas
       ELSE sync_complete_request(m, 1, "error", job[m].err)
    /\ job' = [job EXCEPT ![m].pc = "cleanup",
                          ![m].otherfail = @ \/ delivery # "delivered"]
    /\ UNCHANGED <<local_file, mirror_active, thr, uploadVars, leaseVars, pollVars, hbVars, mirrorVars, webVars, nodeVars, raceVars, mgrVars>>

\* lines 242-244: the file at local_path is removed if there is one
cleanup(m) ==
    /\ job[m].pc = "cleanup"
    /\ local_file' = [local_file EXCEPT ![m] = "absent"]
    /\ job' = [job EXCEPT ![m].pc = "done"]
    /\ UNCHANGED <<syncVars, uploadVars, leaseVars, pollVars, hbVars, mirrorVars, webVars, nodeVars, raceVars, mgrVars>>

NextFetch ==
    \/ \E m \in Mirrors, answer \in ConnectAnswers : connect_attempt(m, answer)
    \/ \E m \in Mirrors, result \in StreamResults : stream(m, result)
    \/ \E m \in Mirrors : verify(m)
    \/ \E m \in Mirrors, delivery \in ReportDeliveries : report_synced(m, delivery)
    \/ \E m \in Mirrors, delivery \in ReportDeliveries : report_error(m, delivery)
    \/ \E m \in Mirrors : cleanup(m)

SpecFetch == InitFetch /\ [][NextFetch]_vars

\* a started perform_sync thread keeps running until it returns
SpecFetchLive == InitFetch /\ [][NextFetch]_vars /\ WF_vars(NextFetch)

(***************************************************************************)
(* Mirror-side fetch: claims                                               *)
(***************************************************************************)

\* the replica of file 1 on mirror m, as sync_complete finds it
ReplicaOf(m) == replicas[first(replicas, 1, m)]

\* C13: a job whose stored bytes did not have the declared checksum has
\* ended without a further fetch attempt, with the file at the staging path
\* deleted and the primary's replica in error with the mismatch message.
C13_MismatchIsTerminalError ==
    \A m \in Mirrors :
        (job[m].pc = "done" /\ job[m].err = "MD5 mismatch") =>
            /\ local_file[m] = "absent"
            /\ ReplicaOf(m).status = "error"
            /\ ReplicaOf(m).error_message = "MD5 mismatch"

\* C14: a job makes at most max_retries fetch attempts, and it gives up for
\* a network error or a failed connection only after max_retries attempts
\* (every earlier attempt that failed was followed by a new one).
C14_GiveUpOnlyAfterLastAttempt ==
    \A m \in Mirrors :
        /\ job[m].attempts <= max_retries
        /\ job[m].err \in {"connect failed", "stream error"} => job[m].attempts = max_retries

\* C15: a job in which exactly one attempt failed by a network error (while
\* connecting or in the middle of the byte stream) and nothing else went
\* wrong ends with the declared bytes stored and the replica synced.
C15_RecoversFromOneNetworkError ==
    \A m \in Mirrors :
        (job[m].pc = "done" /\ job[m].neterrs = 1 /\ ~job[m].otherfail) =>
            /\ local_file[m] = "good"
            /\ ReplicaOf(m).status = "synced"

\* C16: every replica that is syncing eventually is synced or in error.
C16_EventuallyTerminal ==
    \A m \in Mirrors :
        (ReplicaOf(m).status = "syncing") ~> (ReplicaOf(m).status \in {"synced", "error"})

(***************************************************************************)
(* Upload status poll (app/routes/api.py upload_status).  status_file[s]   *)
(* is the file chunks/<s>_status.json: absent, created but still empty, or *)
(* holding the JSON result.  Its writer is process_upload_async (lines     *)
(* 263-269), the task of the complete_chunked_upload definition at line    *)
(* 159 that the definition at line 346 rebinds.  served[s] counts the      *)
(* polls that answered with the result of session s.                       *)
(***************************************************************************)

\* process_upload_async line 268: open(status_path, 'w') creates the file
record_status_open(s) ==
    /\ status_file[s] = "absent"
    /\ served[s] = 0
    /\ status_file' = [status_file EXCEPT ![s] = "empty"]
    /\ UNCHANGED <<poll, served, syncVars, uploadVars, leaseVars, fetchVars, hbVars, mirrorVars, webVars, nodeVars, raceVars, mgrVars>>

\* process_upload_async line 269: json.dump writes the result
record_status_dump(s) ==
    /\ status_file[s] = "empty"
    /\ status_file' = [status_file EXCEPT ![s] = "written"]
    /\ UNCHANGED <<poll, served, syncVars, uploadVars, leaseVars, fetchVars, hbVars, mirrorVars, webVars, nodeVars, raceVars, mgrVars>>

\* upload_status lines 287-289: without the file the answer is processing
upload_status_exists(p, s) ==
    /\ poll[p].pc = "new"
    /\ poll' = [poll EXCEPT ![p] =
                  IF status_file[s] = "absent"
                  THEN [pc |-> "done", session |-> s, answer |-> "processing"]
                  ELSE [pc |-> "load", session |-> s, answer |-> "none"]]
    /\ UNCHANGED <<status_file, served, syncVars, uploadVars, leaseVars, fetchVars, hbVars, mirrorVars, webVars, nodeVars, raceVars, mgrVars>>

\* upload_status lines 290-291: open and json.load; a file that is gone or
\* still empty raises, which the view does not catch (answer 500)
upload_status_load(p) ==
    /\ poll[p].pc = "load"
    /\ poll' = [poll EXCEPT ![p] =
                  IF status_file[poll[p].session] = "written"
                  THEN [poll[p] EXCEPT !.pc = "remove"]
                  ELSE [poll[p] EXCEPT !.pc = "done", !.answer = "error500"]]
    /\ UNCHANGED <<status_file, served, syncVars, uploadVars, leaseVars, fetchVars, hbVars, mirrorVars, webVars, nodeVars, raceVars, mgrVars>>

\* upload_status lines 293-294: safe_remove_file, then the result is the
\* answer
upload_status_remove(p) ==
    /\ poll[p].pc = "remove"
    /\ status_file' = [status_file EXCEPT ![poll[p].session] = "absent"]
    /\ served' = [served EXCEPT ![poll[p].session] = @ + 1]
    /\ poll' = [poll EXCEPT ![p].pc = "done", ![p].answer = "result"]
    /\ UNCHANGED <<syncVars, uploadVars, leaseVars, fetchVars, hbVars, mirrorVars, webVars, nodeVars, raceVars, mgrVars>>

NextPoll ==
    \/ \E s \in Sessions : record_status_open(s)
    \/ \E s \in Sessions : record_status_dump(s)
    \/ \E p \in Polls, s \in Sessions : upload_status_exists(p, s)
    \/ \E p \in Polls : upload_status_load(p)
    \/ \E p \in Polls : upload_status_remove(p)

\* no status file and no poll; the other subsystems at rest
InitPoll ==
    /\ status_file = [s \in Sessions |-> "absent"]
    /\ poll = [p \in Polls |-> NewPoll]
    /\ served = [s \in Sessions |-> 0]
    /\ hb = [p \in Procs |-> "absent"]
    /\ lock_holder = None
    /\ beat = {}
    /\ deaths = 0
    /\ storage_used_mb = [m \in Mirrors |-> 0]
    /\ last_heartbeat = [m \in Mirrors |-> NoHeartbeat]
    /\ reply = NoReply
    /\ stamps = << >>
    /\ now = 0
    /\ dl = NoDownload
    /\ afh = NoCheck
    /\ catalog = [m \in Mirrors |-> NoUpload]
    /\ configured = [m \in Mirrors |-> TRUE]
    /\ fetcher = [t \in Fetchers |-> NoFetch]
    /\ staging = NoStaging
    /\ session = NoSession
    /\ is_on_main_server = [u \in Files |-> TRUE]
    /\ replicas = << >>
    /\ mirror_active = [m \in Mirrors |-> TRUE]
    /\ thr = [t \in Threads |-> IdleThread]
    /\ job = [m \in Mirrors |-> NewJob]
    /\ local_file = [m \in Mirrors |-> "absent"]
    /\ chunk_size = 1
    /\ chunks = [s \in Sessions |-> << >>]
    /\ disk = << >>
    /\ uploads = << >>
    /\ plan = [s \in Sessions |-> << >>]
    /\ finished = {}
    /\ last = NoResponse
    /\ local_active_downloads = [w \in Workers |-> {}]
    /\ active_count = 0
    /\ xfer = [l \in Transfers |-> NewTransfer]
    /\ decs = [l \in Transfers |-> 0]
    /\ closes = [l \in Transfers |-> 0]
    /\ total_bandwidth = [w \in Workers |-> 0]
    /\ allocated = [l \in Transfers |-> 0]

SpecPoll == InitPoll /\ [][NextPoll]_vars

\* C17: a poll answers processing or the recorded result, nothing else, and
\* the result of a session is the answer of at most one poll, also when
\* polls for the session run concurrently.
C17_ResultServedOnce ==
    /\ \A p \in Polls : poll[p].pc = "done" => poll[p].answer \in {"processing", "result"}
    /\ \A s \in Sessions : served[s] <= 1

(***************************************************************************)
(* Heartbeat loop of a mirror node (app/routes/mirror_api.py).  Every      *)
(* process that loads the application (wsgi.py line 28, run.py line 126)   *)
(* calls start_mirror_client once and runs mirror_heartbeat_loop in a      *)
(* thread of its own.  hb[p] is the position of that thread, lock_holder   *)
(* the process holding the lock on /tmp/afh_mirror_heartbeat.lock, beat    *)
(* the processes that have sent a heartbeat since they started.  The node  *)
(* is configured (MIRROR_API_KEY and MAIN_SERVER_URL are set).  A process  *)
(* that exits is replaced by a new one (gunicorn.conf.py line 14: the      *)
(* server keeps its number of workers).                                    *)
(***************************************************************************)

\* start_mirror_client lines 403-407 in a process that starts (for the first
\* time, or in place of one that exited)
start_mirror_client(p) ==
    /\ hb[p] \in {"absent", "dead"}
    /\ hb' = [hb EXCEPT ![p] = "started"]
    /\ UNCHANGED <<lock_holder, beat, deaths,
                   syncVars, uploadVars, leaseVars, fetchVars, pollVars, mirrorVars, webVars, nodeVars, raceVars, mgrVars>>

\* enters the loop without asking for the lock
try_lock_unlocked(p) ==
    /\ hb[p] = "started"
    /\ hb' = [hb EXCEPT ![p] = "looping"]
    /\ UNCHANGED <<lock_holder, beat, deaths,
                   syncVars, uploadVars, leaseVars, fetchVars, pollVars, mirrorVars, webVars, nodeVars, raceVars, mgrVars>>

\* mirror_heartbeat_loop lines 348-357: fcntl.lockf with LOCK_EX | LOCK_NB;
\* the thread returns when another process holds the lock
try_lock(p) ==
    /\ hb[p] = "started"
    /\ IF lock_holder = None
       THEN lock_holder' = p /\ hb' = [hb EXCEPT ![p] = "looping"]
       ELSE lock_holder' = lock_holder /\ hb' = [hb EXCEPT ![p] = "gave_up"]
    /\ UNCHANGED <<beat, deaths,
                   syncVars, uploadVars, leaseVars, fetchVars, pollVars, mirrorVars, webVars, nodeVars, raceVars, mgrVars>>

\* one pass of the loop of lines 370-401: the heartbeat request is sent
send_heartbeat(p) ==
    /\ hb[p] = "looping"
    /\ p \notin beat
    /\ beat' = beat \cup {p}
    /\ UNCHANGED <<hb, lock_holder, deaths,
                   syncVars, uploadVars, leaseVars, fetchVars, pollVars, mirrorVars, webVars, nodeVars, raceVars, mgrVars>>

\* a process exits (crash, restart after max_requests, timeout kill); the
\* kernel drops the lock it held
exit_process(p) ==
    /\ hb[p] \in {"started", "looping", "gave_up"}
    /\ deaths < MaxDeaths
    /\ deaths' = deaths + 1
    /\ hb' = [hb EXCEPT ![p] = "dead"]
    /\ lock_holder' = IF lock_holder = p THEN None ELSE lock_holder
    /\ beat' = beat \ {p}
    /\ UNCHANGED <<syncVars, uploadVars, leaseVars, fetchVars, pollVars, mirrorVars, webVars, nodeVars, raceVars, mgrVars>>

NextHeartbeat ==
    \/ \E p \in Procs : start_mirror_client(p)
    \/ \E p \in Procs : try_lock(p)
    \/ \E p \in Procs : send_heartbeat(p)
    \/ \E p \in Procs : exit_process(p)

\* no process of the mirror node runs yet; the other subsystems at rest
InitHeartbeat ==
    /\ hb = [p \in Procs |-> "absent"]
    /\ lock_holder = None
    /\ beat = {}
    /\ deaths = 0
    /\ storage_used_mb = [m \in Mirrors |-> 0]
    /\ last_heartbeat = [m \in Mirrors |-> NoHeartbeat]
    /\ reply = NoReply
    /\ stamps = << >>
    /\ now = 0
    /\ dl = NoDownload
    /\ afh = NoCheck
    /\ catalog = [m \in Mirrors |-> NoUpload]
    /\ configured = [m \in Mirrors |-> TRUE]
    /\ fetcher = [t \in Fetchers |-> NoFetch]
    /\ staging = NoStaging
    /\ session = NoSession
    /\ is_on_main_server = [u \in Files |-> TRUE]
    /\ status_file = [s \in Sessions |-> "absent"]
    /\ poll = [p \in Polls |-> NewPoll]
    /\ served = [s \in Sessions |-> 0]
    /\ replicas = << >>
    /\ mirror_active = [m \in Mirrors |-> TRUE]
    /\ thr = [t \in Threads |-> IdleThread]
    /\ job = [m \in Mirrors |-> NewJob]
    /\ local_file = [m \in Mirrors |-> "absent"]
    /\ chunk_size = 1
    /\ chunks = [s \in Sessions |-> << >>]
    /\ disk = << >>
    /\ uploads = << >>
    /\ plan = [s \in Sessions |-> << >>]
    /\ finished = {}
    /\ last = NoResponse
    /\ local_active_downloads = [w \in Workers |-> {}]
    /\ active_count = 0
    /\ xfer = [l \in Transfers |-> NewTransfer]
    /\ decs = [l \in Transfers |-> 0]
    /\ closes = [l \in Transfers |-> 0]
    /\ total_bandwidth = [w \in Workers |-> 0]
    /\ allocated = [l \in Transfers |-> 0]

\* processes start (and are replaced), started threads run
SpecHeartbeat ==
    /\ InitHeartbeat
    /\ [][NextHeartbeat]_vars
    /\ \A p \in Procs : WF_vars(start_mirror_client(p))
    /\ \A p \in Procs : WF_vars(try_lock(p))
    /\ \A p \in Procs : WF_vars(send_heartbeat(p))

C18_OneLoop ==
    /\ \A p, q \in Procs : (hb[p] = "looping" /\ hb[q] = "looping") => p = q
    /\ \A p \in Procs : hb[p] = "looping" => lock_holder = p
    /\ \A p \in beat : hb[p] = "looping"

C18_Emitting == \E p \in Procs : hb[p] = "looping" /\ p \in beat

OnlineWindow == 5
StorageLimit == 2

\* Mirror.is_online lines 162-167
is_online(m) == last_heartbeat[m] # NoHeartbeat /\ last_heartbeat[m] < OnlineWindow

\* heartbeat lines 16-29 for a request with the key of mirror m
heartbeat(m, used) ==
    /\ last_heartbeat' = [last_heartbeat EXCEPT ![m] = 0]
    /\ storage_used_mb' = [storage_used_mb EXCEPT ![m] = used]
    /\ UNCHANGED <<syncVars, uploadVars, leaseVars, fetchVars, pollVars, hbVars, webVars, nodeVars, raceVars, mgrVars>>

\* a minute passes
tick ==
    /\ \E m \in Mirrors : last_heartbeat[m] \in 0..(OnlineWindow - 1)
    /\ last_heartbeat' = [m \in Mirrors |->
                            IF last_heartbeat[m] \in 0..(OnlineWindow - 1)
                            THEN last_heartbeat[m] + 1 ELSE last_heartbeat[m]]
    /\ UNCHANGED <<storage_used_mb, syncVars, uploadVars, leaseVars, fetchVars, pollVars, hbVars, webVars, nodeVars, raceVars, mgrVars>>

\* one call of trigger_mirror_sync (thread 1) against a registry that
\* receives heartbeats and ages
NextSelect ==
    \/ \E u \in Files, ids \in SUBSET Mirrors : trigger_mirror_sync(1, u, ids)
    \/ set_pending(1)
    \/ \E resp \in DispatchOutcomes : commit_outcome(1, resp)
    \/ \E m \in Mirrors, used \in 0..StorageLimit : heartbeat(m, used)
    \/ tick

\* mirrors are registered, active or not, and have sent no heartbeat yet
InitSelect ==
    /\ replicas = << >>
    /\ mirror_active \in [Mirrors -> BOOLEAN]
    /\ thr = [t \in Threads |-> IdleThread]
    /\ storage_used_mb = [m \in Mirrors |-> 0]
    /\ last_heartbeat = [m \in Mirrors |-> NoHeartbeat]
    /\ reply = NoReply
    /\ stamps = << >>
    /\ now = 0
    /\ dl = NoDownload
    /\ afh = NoCheck
    /\ catalog = [m \in Mirrors |-> NoUpload]
    /\ configured = [m \in Mirrors |-> TRUE]
    /\ fetcher = [t \in Fetchers |-> NoFetch]
    /\ staging = NoStaging
    /\ session = NoSession
    /\ is_on_main_server = [u \in Files |-> TRUE]
    /\ hb = [p \in Procs |-> "absent"]
    /\ lock_holder = None
    /\ beat = {}
    /\ deaths = 0
    /\ status_file = [s \in Sessions |-> "absent"]
    /\ poll = [p \in Polls |-> NewPoll]
    /\ served = [s \in Sessions |-> 0]
    /\ job = [m \in Mirrors |-> NewJob]
    /\ local_file = [m \in Mirrors |-> "absent"]
    /\ chunk_size = 1
    /\ chunks = [s \in Sessions |-> << >>]
    /\ disk = << >>
    /\ uploads = << >>
    /\ plan = [s \in Sessions |-> << >>]
    /\ finished = {}
    /\ last = NoResponse
    /\ local_active_downloads = [w \in Workers |-> {}]
    /\ active_count = 0
    /\ xfer = [l \in Transfers |-> NewTransfer]
    /\ decs = [l \in Transfers |-> 0]
    /\ closes = [l \in Transfers |-> 0]
    /\ total_bandwidth = [w \in Workers |-> 0]
    /\ allocated = [l \in Transfers |-> 0]

SpecSelect == InitSelect /\ [][NextSelect]_vars

\* the mirrors a call has just decided to dispatch to
Chosen(t) == {thr'[t].mirror} \cup thr'[t].todo

\* C19: a call without explicit targets dispatches to at most AutoTargets
\* mirrors, each of them active and below its storage limit.
C19_SelectsUnderCapacity ==
    [][\A u \in Files : trigger_mirror_sync(1, u, {}) =>
          /\ Cardinality(Chosen(1)) <= AutoTargets
          /\ \A m \in Chosen(1) : mirror_active[m] /\ storage_used_mb[m] < StorageLimit]_vars

\* C20: a mirror is online exactly while its last heartbeat is less than
\* OnlineWindow minutes old; a call never chooses a mirror that is not
\* online; time passing removes no mirror and no replica.
C20_OfflineNeverChosen ==
    [][/\ \A u \in Files, ids \in SUBSET Mirrors :
            trigger_mirror_sync(1, u, ids) => \A m \in Chosen(1) : is_online(m)
       /\ tick => UNCHANGED <<replicas, mirror_active>>]_vars

(***************************************************************************)
(* Callbacks of the mirrors on the primary (app/routes/mirror_api.py       *)
(* heartbeat, report_progress, sync_complete), as requests that carry an   *)
(* api_key.  now counts the requests handled and stands for the clock:     *)
(* stamps[r] holds the updated_at and synced_at columns of replica r as    *)
(* the value of now at the write (0: the time the row was created, None    *)
(* for a synced_at never set).  The socket event of report_progress is     *)
(* not stored.                                                             *)
(***************************************************************************)
MaxRequests == 3
UnknownKey == 3

\* Mirror.api_key of mirror m (models.py line 139)
api_key(m) == m

Keys == {api_key(m) : m \in Mirrors} \cup {UnknownKey}

\* a lookup that falls back to the first mirror when no key matches
mirror_by_key_lenient(key) ==
    IF {m \in Mirrors : api_key(m) = key} = {}
    THEN Min(Mirrors)
    ELSE Min({m \in Mirrors : api_key(m) = key})

\* Mirror.query.filter_by(api_key=api_key).first()
mirror_by_key(key) ==
    IF {m \in Mirrors : api_key(m) = key} = {}
    THEN None
    ELSE Min({m \in Mirrors : api_key(m) = key})

Reply(handler, code) == [handler |-> handler, code |-> code]

\* heartbeat lines 17-29
heartbeat_request(key, used) ==
    /\ now < MaxRequests
    /\ now' = now + 1
    /\ IF mirror_by_key(key) = None
       THEN /\ reply' = Reply("heartbeat", 401)
            /\ UNCHANGED <<storage_used_mb, last_heartbeat>>
       ELSE /\ last_heartbeat' = [last_heartbeat EXCEPT ![mirror_by_key(key)] = 0]
            /\ storage_used_mb' = [storage_used_mb EXCEPT ![mirror_by_key(key)] = used]
            /\ reply' = Reply("heartbeat", 200)
    /\ UNCHANGED <<stamps, dl, afh, nodeVars, syncVars, uploadVars, leaseVars, fetchVars,
                   pollVars, hbVars, raceVars, mgrVars>>

\* report_progress lines 32-54
report_progress(key, u) ==
    /\ now < MaxRequests
    /\ now' = now + 1
    /\ reply' = Reply("progress", IF mirror_by_key(key) = None THEN 401 ELSE 200)
    /\ UNCHANGED <<stamps, dl, afh, nodeVars, syncVars, uploadVars, leaseVars, fetchVars,
                   pollVars, hbVars, mirrorVars, raceVars, mgrVars>>

\* the values the status key of a sync_complete payload may hold: those
\* perform_sync sends, the other two of the column comment, another string,
\* or nothing (data.get returns None)
CallbackStatus == {"synced", "error", "pending", "syncing", "cancelled", "null"}
CallbackMessages == {"none", "mirror error"}

\* lines 76-77 for the row r that line 72 found
stamp(r, status) ==
    [stamps EXCEPT ![r].updated_at = now + 1,
                   ![r].synced_at = IF status = "synced" THEN now + 1 ELSE @]

\* sync_complete lines 57-80
sync_complete_callback(key, u, status, error_msg) ==
    /\ now < MaxRequests
    /\ now' = now + 1
    /\ IF mirror_by_key(key) = None
       THEN /\ reply' = Reply("sync_complete", 401)
            /\ UNCHANGED <<replicas, stamps>>
       ELSE /\ sync_complete_request(mirror_by_key(key), u, status, error_msg)
            /\ stamps' = IF first(replicas, u, mirror_by_key(key)) = None
                         THEN stamps
                         ELSE stamp(first(replicas, u, mirror_by_key(key)), status)
            /\ reply' = Reply("sync_complete", 200)
    /\ UNCHANGED <<mirror_active, thr, dl, afh, nodeVars, uploadVars, leaseVars, fetchVars,
                   pollVars, hbVars, mirrorVars, raceVars, mgrVars>>

NextCallback ==
    \/ \E key \in Keys, used \in 0..StorageLimit : heartbeat_request(key, used)
    \/ \E key \in Keys, u \in Files : report_progress(key, u)
    \/ \E key \in Keys, u \in Files, status \in CallbackStatus, msg \in CallbackMessages :
            sync_complete_callback(key, u, status, msg)

\* mirror 1 accepted the job for file 1 and its replica is syncing; mirror 2
\* is registered and has no replica
InitCallback ==
    /\ replicas = <<[FileReplica(1, 1) EXCEPT !.status = "syncing"]>>
    /\ stamps = <<[updated_at |-> 0, synced_at |-> None]>>
    /\ mirror_active = [m \in Mirrors |-> TRUE]
    /\ thr = [t \in Threads |-> IdleThread]
    /\ storage_used_mb = [m \in Mirrors |-> 0]
    /\ last_heartbeat = [m \in Mirrors |-> NoHeartbeat]
    /\ reply = NoReply
    /\ now = 0
    /\ dl = NoDownload
    /\ afh = NoCheck
    /\ catalog = [m \in Mirrors |-> NoUpload]
    /\ configured = [m \in Mirrors |-> TRUE]
    /\ fetcher = [t \in Fetchers |-> NoFetch]
    /\ staging = NoStaging
    /\ session = NoSession
    /\ is_on_main_server = [u \in Files |-> TRUE]
    /\ hb = [p \in Procs |-> "absent"]
    /\ lock_holder = None
    /\ beat = {}
    /\ deaths = 0
    /\ status_file = [s \in Sessions |-> "absent"]
    /\ poll = [p \in Polls |-> NewPoll]
    /\ served = [s \in Sessions |-> 0]
    /\ job = [m \in Mirrors |-> NewJob]
    /\ local_file = [m \in Mirrors |-> "absent"]
    /\ chunk_size = 1
    /\ chunks = [s \in Sessions |-> << >>]
    /\ disk = << >>
    /\ uploads = << >>
    /\ plan = [s \in Sessions |-> << >>]
    /\ finished = {}
    /\ last = NoResponse
    /\ local_active_downloads = [w \in Workers |-> {}]
    /\ active_count = 0
    /\ xfer = [l \in Transfers |-> NewTransfer]
    /\ decs = [l \in Transfers |-> 0]
    /\ closes = [l \in Transfers |-> 0]
    /\ total_bandwidth = [w \in Workers |-> 0]
    /\ allocated = [l \in Transfers |-> 0]

SpecCallback == InitCallback /\ [][NextCallback]_vars

\* a callback request arrives with key
CallbackWith(key) ==
    \/ \E used \in 0..StorageLimit : heartbeat_request(key, used)
    \/ \E u \in Files : report_progress(key, u)
    \/ \E u \in Files, status \in CallbackStatus, msg \in CallbackMessages :
            sync_complete_callback(key, u, status, msg)

\* C21: a heartbeat, progress or sync_complete request whose key is the
\* api_key of no mirror is answered 401 and leaves every mirror's heartbeat
\* time and storage usage and every replica's status, message and
\* timestamps as they were.
C21_UnknownKeyChangesNothing ==
    [][\A key \in Keys :
          (CallbackWith(key) /\ \A m \in Mirrors : api_key(m) # key) =>
            /\ reply'.code = 401
            /\ UNCHANGED <<replicas, stamps, storage_used_mb, last_heartbeat, mirror_active>>]_vars

\* a sync_complete request with an unknown key was refused while the
\* replica it names was syncing
C21_Witness ==
    /\ reply = Reply("sync_complete", 401)
    /\ replicas[1].status = "syncing"
    /\ stamps[1].updated_at = 0

\* C29: the status of every replica is one of pending, syncing, synced and
\* error, whatever status a sync_complete request carries.
C29_StatusInEnum ==
    \A r \in Rows : replicas[r].status \in {"pending", "syncing", "synced", "error"}

(***************************************************************************)
(* download_file (app/routes/api.py) for the one File of the catalog.  The *)
(* header X-Mirror-Api-Key is None when absent; the Range header is        *)
(* NoRange when absent and otherwise <<a, b>> for bytes=a-b, with b =      *)
(* NoEnd for bytes=a-.  dl holds the answer's status and headers and the   *)
(* position of the generator that streams the body, sent being the bytes   *)
(* yielded so far.  The lease the generator takes from the RateLimiter is  *)
(* the subject of SpecLease and is left out here.                          *)
(***************************************************************************)
NoEnd == -1
NoRange == << >>
StreamChunk == 1

Ranges == {NoRange} \cup {<<a, b>> : a \in 0..MaxLen, b \in {NoEnd} \cup 0..MaxLen}

\* lines 79-86
byte1(range) == IF range = NoRange THEN 0 ELSE range[1]
byte2(range) == IF range = NoRange THEN NoEnd ELSE range[2]

\* lines 88-94
length(range, file_size) ==
    LET l == IF byte2(range) # NoEnd
             THEN byte2(range) + 1 - byte1(range)
             ELSE file_size - byte1(range)
    IN  IF l < 0 THEN 0 ELSE l

\* takes the key of any registered mirror
is_mirror_registered(key) == key # None /\ mirror_by_key(key) # None

\* lines 46-54
is_mirror(key) ==
    key # None /\ mirror_by_key(key) # None /\ mirror_active[mirror_by_key(key)]

\* an answer without a body
Refusal(key, range, code) ==
    [pc |-> "done", key |-> key, range |-> range, code |-> code, content_length |-> 0,
     range_end |-> NoEnd, total |-> 0, pos |-> 0, remaining |-> 0, sent |-> << >>]

\* download_file lines 42-151 up to the return of the Response; the body is
\* produced afterwards by generate
download_file(key, range) ==
    /\ dl.pc = "none"
    /\ LET upload == uploads[1] IN
        IF ~is_mirror(key) /\ upload.status # "approved"
        THEN dl' = Refusal(key, range, 404)
        ELSE IF upload.filename \notin DOMAIN disk
        THEN dl' = Refusal(key, range, 404)
        ELSE IF byte1(range) >= Len(disk[upload.filename])
        THEN dl' = Refusal(key, range, 416)
        ELSE LET file_size == Len(disk[upload.filename]) IN
             dl' = [pc |-> "streaming", key |-> key, range |-> range,
                    code |-> IF range = NoRange THEN 200 ELSE 206,
                    content_length |-> length(range, file_size),
                    range_end |-> IF range = NoRange THEN NoEnd
                                  ELSE byte1(range) + length(range, file_size) - 1,
                    total |-> file_size,
                    pos |-> byte1(range),
                    remaining |-> length(range, file_size),
                    sent |-> << >>]
    /\ reply' = Reply("download", dl'.code)
    /\ UNCHANGED <<stamps, now, afh, nodeVars, syncVars, uploadVars, leaseVars, fetchVars,
                   pollVars, hbVars, mirrorVars, raceVars, mgrVars>>

\* f.read(n) at position pos of a file
file_read(bytes, pos, n) ==
    SubSeq(bytes, pos + 1, IF pos + n < Len(bytes) THEN pos + n ELSE Len(bytes))

\* generate lines 120-127: one pass of the loop, or its end
generate ==
    /\ dl.pc = "streaming"
    /\ LET n    == IF StreamChunk < dl.remaining THEN StreamChunk ELSE dl.remaining
           data == file_read(disk[uploads[1].filename], dl.pos, n)
       IN  IF dl.remaining > 0 /\ data # << >>
           THEN dl' = [dl EXCEPT !.sent = @ \o data, !.pos = @ + Len(data),
                                 !.remaining = @ - Len(data)]
           ELSE dl' = [dl EXCEPT !.pc = "done"]
    /\ UNCHANGED <<reply, stamps, now, afh, nodeVars, syncVars, uploadVars, leaseVars, fetchVars,
                   pollVars, hbVars, mirrorVars, raceVars, mgrVars>>

NextDownload ==
    \/ \E key \in {None} \cup Keys, range \in Ranges : download_file(key, range)
    \/ generate

\* one File of any content and admission status, stored or missing on disk;
\* two registered mirrors, active or not
InitDownload ==
    /\ \E data \in Inputs, st \in {"approved", "pending", "rejected"}, present \in BOOLEAN :
          /\ uploads = <<[Upload(1, Len(data), calculate_md5(data)) EXCEPT !.status = st]>>
          /\ disk = IF present THEN (1 :> data) ELSE << >>
    /\ mirror_active \in [Mirrors -> BOOLEAN]
    /\ replicas = << >>
    /\ thr = [t \in Threads |-> IdleThread]
    /\ chunk_size = 1
    /\ chunks = [s \in Sessions |-> << >>]
    /\ plan = [s \in Sessions |-> << >>]
    /\ finished = {}
    /\ last = NoResponse
    /\ local_active_downloads = [w \in Workers |-> {}]
    /\ active_count = 0
    /\ xfer = [l \in Transfers |-> NewTransfer]
    /\ decs = [l \in Transfers |-> 0]
    /\ closes = [l \in Transfers |-> 0]
    /\ total_bandwidth = [w \in Workers |-> 0]
    /\ allocated = [l \in Transfers |-> 0]
    /\ job = [m \in Mirrors |-> NewJob]
    /\ local_file = [m \in Mirrors |-> "absent"]
    /\ status_file = [s \in Sessions |-> "absent"]
    /\ poll = [p \in Polls |-> NewPoll]
    /\ served = [s \in Sessions |-> 0]
    /\ hb = [p \in Procs |-> "absent"]
    /\ lock_holder = None
    /\ beat = {}
    /\ deaths = 0
    /\ storage_used_mb = [m \in Mirrors |-> 0]
    /\ last_heartbeat = [m \in Mirrors |-> NoHeartbeat]
    /\ reply = NoReply
    /\ stamps = << >>
    /\ now = 0
    /\ dl = NoDownload
    /\ afh = NoCheck
    /\ catalog = [m \in Mirrors |-> NoUpload]
    /\ configured = [m \in Mirrors |-> TRUE]
    /\ fetcher = [t \in Fetchers |-> NoFetch]
    /\ staging = NoStaging
    /\ session = NoSession
    /\ is_on_main_server = [u \in Files |-> TRUE]

SpecDownload == InitDownload /\ [][NextDownload]_vars

\* the keys of the registered mirrors that are active
ActiveKeys == {api_key(m) : m \in {k \in Mirrors : mirror_active[k]}}

\* C22: a request for a File that is not approved which carries no key, an
\* unknown key or the key of an inactive mirror is answered 404 and gets no
\* byte.
C22_NonApprovedOnlyForActiveMirror ==
    (dl.pc # "none" /\ uploads[1].status # "approved" /\ dl.key \notin ActiveKeys) =>
        /\ reply = Reply("download", 404)
        /\ dl.sent = << >>

\* the key of a registered but inactive mirror was refused a pending File
\* that is on disk
C22_Witness ==
    /\ dl.pc = "done"
    /\ dl.key \in {api_key(m) : m \in Mirrors} \ ActiveKeys
    /\ uploads[1].status = "pending"
    /\ uploads[1].filename \in DOMAIN disk
    /\ reply = Reply("download", 404)

\* C23: a request with Range bytes=a-b that is not refused with 404 is
\* answered 416 when a is not below the file's size T, and otherwise 206
\* with Content-Range bytes a-e/T where e <= T-1 and Content-Length e-a+1,
\* and once the body has ended exactly the bytes a..e were streamed.
C23_RangeAnswer ==
    (dl.pc # "none" /\ dl.range # NoRange /\ dl.code # 404) =>
        LET T == Len(disk[uploads[1].filename])
            a == dl.range[1]
        IN  IF a >= T
            THEN dl.code = 416
            ELSE /\ dl.code = 206
                 /\ dl.total = T
                 /\ dl.range_end <= T - 1
                 /\ dl.content_length = dl.range_end - a + 1
                 /\ dl.pc = "done" => dl.sent = SubSeq(disk[uploads[1].filename], a + 1, dl.range_end + 1)

(***************************************************************************)
(* A mirror node taking jobs (app/routes/mirror_api.py receive_sync_job,   *)
(* perform_sync) next to the primary dispatching them.  configured[m]      *)
(* tells whether MIRROR_API_KEY is set on node m; catalog[m] is the row of *)
(* the node's own uploads table with the id of File 1, NoUpload when there *)
(* is none.  The endpoint takes any JSON body: a job carries the values of *)
(* the primary's File or other ones.  A node runs its jobs one after the   *)
(* other here, at most MaxJobs of them.                                    *)
(***************************************************************************)
MaxJobs == 2

\* the payload built from the primary's File 1, and one with other values
\* for the same file_id
JobPayloads ==
    {JobData(uploads[1].filename, uploads[1].file_size, uploads[1].md5_hash), JobData(2, 2, 2)}

\* runs the transfer to its end before it answers
receive_sync_job_inline(m, data) ==
    /\ job[m].pc \in {"none", "done"}
    /\ job[m].runs < MaxJobs
    /\ IF ~configured[m]
       THEN /\ reply' = Reply("job_sync", 400)
            /\ UNCHANGED <<job, local_file>>
       ELSE /\ job' = [job EXCEPT ![m] = [NewJob EXCEPT !.data = data, !.runs = job[m].runs + 1,
                                                        !.attempts = 1, !.pc = "verify"]]
            /\ local_file' = [local_file EXCEPT ![m] = "good"]
            /\ reply' = Reply("job_sync", 200)
    /\ UNCHANGED <<catalog, configured, stamps, now, dl, afh, syncVars, uploadVars, leaseVars,
                   pollVars, hbVars, mirrorVars, raceVars, mgrVars>>

\* receive_sync_job lines 247-297: 400 when the node has no MIRROR_API_KEY,
\* otherwise a perform_sync thread is started and the answer is job_accepted
receive_sync_job(m, data) ==
    /\ job[m].pc \in {"none", "done"}
    /\ job[m].runs < MaxJobs
    /\ IF ~configured[m]
       THEN /\ reply' = Reply("job_sync", 400)
            /\ UNCHANGED job
       ELSE /\ job' = [job EXCEPT ![m] = [NewJob EXCEPT !.data = data, !.runs = job[m].runs + 1]]
            /\ reply' = Reply("job_sync", 200)
    /\ UNCHANGED <<local_file, catalog, configured, stamps, now, dl, afh, syncVars, uploadVars,
                   leaseVars, pollVars, hbVars, mirrorVars, raceVars, mgrVars>>

NextJobs ==
    \/ \E m \in Mirrors, data \in JobPayloads : receive_sync_job(m, data)
    \/ \E m \in Mirrors, answer \in ConnectAnswers : connect_attempt(m, answer)
    \/ \E m \in Mirrors, result \in StreamResults : stream(m, result)
    \/ \E m \in Mirrors : verify(m)
    \/ \E m \in Mirrors, delivery \in ReportDeliveries : report_synced(m, delivery)
    \/ \E m \in Mirrors, delivery \in ReportDeliveries : report_error(m, delivery)
    \/ \E m \in Mirrors : cleanup(m)
    \/ \E u \in Files, ids \in SUBSET Mirrors : trigger_mirror_sync(1, u, ids)
    \/ set_pending(1)
    \/ \E resp \in DispatchOutcomes : commit_outcome(1, resp)

\* the primary holds File 1, approved; node 1 is configured as a mirror and
\* node 2 is not; no job has arrived and no catalog row exists
InitJobs ==
    /\ uploads = <<[Upload(1, 1, 1) EXCEPT !.status = "approved"]>>
    /\ configured = [m \in Mirrors |-> m = 1]
    /\ fetcher = [t \in Fetchers |-> NoFetch]
    /\ staging = NoStaging
    /\ session = NoSession
    /\ is_on_main_server = [u \in Files |-> TRUE]
    /\ job = [m \in Mirrors |-> [NewJob EXCEPT !.pc = "none", !.runs = 0]]
    /\ mirror_active \in [Mirrors -> BOOLEAN]
    /\ replicas = << >>
    /\ thr = [t \in Threads |-> IdleThread]
    /\ chunk_size = 1
    /\ chunks = [s \in Sessions |-> << >>]
    /\ disk = << >>
    /\ plan = [s \in Sessions |-> << >>]
    /\ finished = {}
    /\ last = NoResponse
    /\ local_active_downloads = [w \in Workers |-> {}]
    /\ active_count = 0
    /\ xfer = [l \in Transfers |-> NewTransfer]
    /\ decs = [l \in Transfers |-> 0]
    /\ closes = [l \in Transfers |-> 0]
    /\ total_bandwidth = [w \in Workers |-> 0]
    /\ allocated = [l \in Transfers |-> 0]
    /\ local_file = [m \in Mirrors |-> "absent"]
    /\ status_file = [s \in Sessions |-> "absent"]
    /\ poll = [p \in Polls |-> NewPoll]
    /\ served = [s \in Sessions |-> 0]
    /\ hb = [p \in Procs |-> "absent"]
    /\ lock_holder = None
    /\ beat = {}
    /\ deaths = 0
    /\ storage_used_mb = [m \in Mirrors |-> 0]
    /\ last_heartbeat = [m \in Mirrors |-> NoHeartbeat]
    /\ reply = NoReply
    /\ stamps = << >>
    /\ now = 0
    /\ dl = NoDownload
    /\ afh = NoCheck
    /\ catalog = [m \in Mirrors |-> NoUpload]

SpecJobs == InitJobs /\ [][NextJobs]_vars

\* C24: receive_sync_job answers a job on a configured node with
\* job_accepted after starting the transfer thread, before the thread has
\* made any request or stored any byte, and answers a job on a node that is
\* not configured as a mirror with an error without starting a thread.
C24_FireAndForget ==
    [][\A m \in Mirrors, data \in JobPayloads :
          receive_sync_job(m, data) =>
            IF configured[m]
            THEN /\ reply' = Reply("job_sync", 200)
                 /\ job'[m].pc = "connect" /\ job'[m].attempts = 0
                 /\ job'[m].runs = job[m].runs + 1
                 /\ UNCHANGED <<local_file, catalog, replicas>>
            ELSE /\ reply' = Reply("job_sync", 400)
                 /\ UNCHANGED <<job, local_file, catalog, replicas>>]_vars

\* a job was accepted and its thread has not made a request yet
C24_Witness ==
    /\ reply = Reply("job_sync", 200)
    /\ job[1].pc = "connect" /\ job[1].attempts = 0 /\ job[1].runs = 1
    /\ local_file[1] = "absent"

\* C28: no step of the replication changes a File record that exists: not
\* the primary's, and not the row of a mirror's own catalog.
C28_ReplicationKeepsFiles ==
    [][/\ \A u \in DOMAIN uploads : u \in DOMAIN uploads' /\ uploads'[u] = uploads[u]
       /\ \A m \in Mirrors : catalog[m] # NoUpload => catalog'[m] = catalog[m]]_vars

(***************************************************************************)
(* Bandwidth pool: leases that are never released                          *)
(***************************************************************************)

\* every acquisition, read loop and close that can take a step does so
SpecLeaseLive == InitLease /\ [][NextLease]_vars /\ WF_vars(NextLease)

\* C25: a lease whose caller never releases it (the acquisition failed
\* after the lease was counted, so that no handle exists to close) is
\* eventually evicted: its entry leaves the pool and its slot in the shared
\* count is given back.
C25_StaleLeaseEvicted ==
    \A l \in Transfers :
        (xfer[l].pc = "failed") ~>
            (/\ \A w \in Workers : l \notin local_active_downloads[w]
             /\ active_count = LeasesHeld)

(***************************************************************************)
(* Chunked upload: order and repetition of fragments, fragment count       *)
(***************************************************************************)

\* the staging area after each fragment of the input of session s was sent
\* once, in increasing order
SentOnceInOrder(s) ==
    [i \in 0..(total_chunks_of(Len(plan[s])) - 1) |-> Fragment(plan[s], i)]

C26_Staged ==
    \A s \in Sessions :
        /\ \A i \in DOMAIN chunks[s] : chunks[s][i] = Fragment(plan[s], i)
        /\ DOMAIN chunks[s] = DOMAIN SentOnceInOrder(s) =>
              assemble(chunks[s], total_chunks_of(Len(plan[s])))
                = assemble(SentOnceInOrder(s), total_chunks_of(Len(plan[s])))

C26_Step ==
    \A s \in Sessions, i \in 0..(MaxLen - 1) :
        upload_chunk(s, i) =>
            /\ DOMAIN chunks'[s] = DOMAIN chunks[s] \cup {i}
            /\ chunks'[s][i] = Fragment(plan[s], i)
            /\ \A j \in DOMAIN chunks[s] \ {i} : chunks'[s][j] = chunks[s][j]
            /\ \A c \in Sessions \ {s} : chunks'[c] = chunks[c]

\* C26: in whatever order the fragments are sent and however often each is
\* repeated, a call of upload_chunk replaces the staged bytes of its index
\* by the bytes it carries and touches no other index, the staging area
\* holds for each index the bytes last sent for it, and what is assembled
\* from a complete staging area is what is assembled after sending each
\* fragment once in increasing order.
C26_OrderAndRepeatsIrrelevant == []C26_Staged /\ [][C26_Step]_vars

\* the second fragment of an input is staged while the first is not, after
\* another session was assembled
C26_Witness ==
    /\ chunk_size = 1
    /\ last.code = 200
    /\ \E s \in Sessions :
        /\ Len(plan[s]) >= 2
        /\ 1 \in DOMAIN chunks[s]
        /\ 0 \notin DOMAIN chunks[s]

\* C30: a File is admitted only when a fragment is staged for every index
\* below the fragment count that init_chunked_upload returned for the
\* session, whatever count the request to complete carries.
C30_CountFixedAtInit ==
    [][\A s \in Sessions, total \in Totals :
          \A h \in Hashes(s) :
            (complete_chunked_upload(s, total, h) /\ Len(uploads') > Len(uploads)) =>
                \A i \in 0..(total_chunks_of(Len(plan[s])) - 1) : i \in DOMAIN chunks[s]]_vars

(***************************************************************************)
(* Comparison with the external page (app/utils/afh_verifier.py).  A       *)
(* checksum string is <<v, c>>: its value read without regard to case and  *)
(* the case of its letters; NoMd5 is None or ''.  upload.afh_link is       *)
(* "none" (None), "" or "url": every writer of the column strips it.  The  *)
(* request of fetch_afh_md5 ends with a timeout, another requests          *)
(* exception (an error status raised by raise_for_status included), an     *)
(* exception of another kind, or a page.  A page is described by what the  *)
(* two extraction methods find on it: labelled is the 32-hex text of the   *)
(* first file-attr-value span with an MD5 label, near the first 32-hex     *)
(* string of the text with "MD5" within 200 characters; each is NoMd5 when *)
(* there is none.                                                          *)
(***************************************************************************)
NoMd5 == << >>
Md5Strings == {<<v, c>> : v \in {1, 2}, c \in {"lower", "upper"}}
Links == {"none", "", "url"}
Pages == [kind : {"page"}, labelled : Md5Strings \cup {NoMd5}, near : Md5Strings \cup {NoMd5}]
FetchOutcomes ==
    {[kind |-> k, labelled |-> NoMd5, near |-> NoMd5] :
        k \in {"timeout", "request_exception", "exception"}} \cup Pages

\* leaves the letters as they are
lower_as_is(x) == x

\* str.lower
lower(x) == IF x = NoMd5 THEN NoMd5 ELSE <<x[1], "lower">>

\* fetch_afh_md5 lines 10-79: <<md5_hash, error_message>>
fetch_afh_md5(afh_url, outcome) ==
    IF afh_url \in {"none", ""} THEN <<NoMd5, "No AFH link provided">>
    ELSE IF outcome.kind = "timeout" THEN <<NoMd5, "Request timeout">>
    ELSE IF outcome.kind = "request_exception" THEN <<NoMd5, "Network error">>
    ELSE IF outcome.kind = "exception" THEN <<NoMd5, "Error">>
    ELSE IF outcome.labelled # NoMd5 THEN <<lower(outcome.labelled), "none">>
    ELSE IF outcome.near # NoMd5 THEN <<lower(outcome.near), "none">>
    ELSE <<NoMd5, "MD5 hash not found on AFH page">>

\* verify_md5_against_afh lines 82-112: the status it returns
afh_md5_status(afh_link, md5_hash, outcome) ==
    IF afh_link \in {"none", ""} THEN "no_link"
    ELSE LET afh_md5 == fetch_afh_md5(afh_link, outcome)[1]
             error   == fetch_afh_md5(afh_link, outcome)[2]
         IN  IF error # "none" THEN "error"
             ELSE IF afh_md5 = NoMd5 THEN "error"
             ELSE IF afh_md5 = lower(md5_hash) THEN "match"
             ELSE "mismatch"

\* a call of verify_md5_against_afh for a File with the given link and
\* checksum, the request ending with outcome
verify_md5_against_afh(afh_link, md5_hash, outcome) ==
    /\ afh' = [pc |-> "done", afh_link |-> afh_link, md5_hash |-> md5_hash,
               outcome |-> outcome, status |-> afh_md5_status(afh_link, md5_hash, outcome)]
    /\ UNCHANGED <<reply, stamps, now, dl, nodeVars, syncVars, uploadVars, leaseVars, fetchVars,
                   pollVars, hbVars, mirrorVars, raceVars, mgrVars>>

NextVerify ==
    \E afh_link \in Links, md5_hash \in Md5Strings \cup {NoMd5}, outcome \in FetchOutcomes :
        verify_md5_against_afh(afh_link, md5_hash, outcome)

\* no call has been made
InitVerify ==
    /\ replicas = << >>
    /\ mirror_active = [m \in Mirrors |-> TRUE]
    /\ thr = [t \in Threads |-> IdleThread]
    /\ chunk_size = 1
    /\ chunks = [s \in Sessions |-> << >>]
    /\ disk = << >>
    /\ uploads = << >>
    /\ plan = [s \in Sessions |-> << >>]
    /\ finished = {}
    /\ last = NoResponse
    /\ local_active_downloads = [w \in Workers |-> {}]
    /\ active_count = 0
    /\ xfer = [l \in Transfers |-> NewTransfer]
    /\ decs = [l \in Transfers |-> 0]
    /\ closes = [l \in Transfers |-> 0]
    /\ total_bandwidth = [w \in Workers |-> 0]
    /\ allocated = [l \in Transfers |-> 0]
    /\ job = [m \in Mirrors |-> NewJob]
    /\ local_file = [m \in Mirrors |-> "absent"]
    /\ status_file = [s \in Sessions |-> "absent"]
    /\ poll = [p \in Polls |-> NewPoll]
    /\ served = [s \in Sessions |-> 0]
    /\ hb = [p \in Procs |-> "absent"]
    /\ lock_holder = None
    /\ beat = {}
    /\ deaths = 0
    /\ storage_used_mb = [m \in Mirrors |-> 0]
    /\ last_heartbeat = [m \in Mirrors |-> NoHeartbeat]
    /\ reply = NoReply
    /\ stamps = << >>
    /\ now = 0
    /\ dl = NoDownload
    /\ afh = NoCheck
    /\ catalog = [m \in Mirrors |-> NoUpload]
    /\ configured = [m \in Mirrors |-> TRUE]
    /\ fetcher = [t \in Fetchers |-> NoFetch]
    /\ staging = NoStaging
    /\ session = NoSession
    /\ is_on_main_server = [u \in Files |-> TRUE]

SpecVerify == InitVerify /\ [][NextVerify]_vars

\* the checksum a page shows, NoMd5 when it shows none
Extracted(outcome) ==
    IF outcome.kind # "page" THEN NoMd5
    ELSE IF outcome.labelled # NoMd5 THEN outcome.labelled
    ELSE outcome.near

SameIgnoringCase(x, y) == x # NoMd5 /\ y # NoMd5 /\ x[1] = y[1]

FrameFiles == {1, 2}

NextFrame ==
    \/ \E key \in Keys, used \in 0..StorageLimit : heartbeat_request(key, used)
    \/ \E key \in Keys, u \in FrameFiles : report_progress(key, u)
    \/ \E key \in Keys, u \in FrameFiles, status \in CallbackStatus, msg \in CallbackMessages :
            sync_complete_callback(key, u, status, msg)

\* both mirrors accepted the jobs for file 1 and mirror 1 the job for file
\* 2; the replica of file 2 on mirror 2 is not there
InitFrame ==
    /\ replicas = <<[FileReplica(1, 1) EXCEPT !.status = "syncing"],
                   [FileReplica(1, 2) EXCEPT !.status = "syncing"],
                   [FileReplica(2, 1) EXCEPT !.status = "syncing"]>>
    /\ stamps = [r \in 1..3 |-> [updated_at |-> 0, synced_at |-> None]]
    /\ mirror_active = [m \in Mirrors |-> TRUE]
    /\ thr = [t \in Threads |-> IdleThread]
    /\ chunk_size = 1
    /\ chunks = [s \in Sessions |-> << >>]
    /\ disk = << >>
    /\ uploads = << >>
    /\ plan = [s \in Sessions |-> << >>]
    /\ finished = {}
    /\ last = NoResponse
    /\ local_active_downloads = [w \in Workers |-> {}]
    /\ active_count = 0
    /\ xfer = [l \in Transfers |-> NewTransfer]
    /\ decs = [l \in Transfers |-> 0]
    /\ closes = [l \in Transfers |-> 0]
    /\ total_bandwidth = [w \in Workers |-> 0]
    /\ allocated = [l \in Transfers |-> 0]
    /\ job = [m \in Mirrors |-> NewJob]
    /\ local_file = [m \in Mirrors |-> "absent"]
    /\ status_file = [s \in Sessions |-> "absent"]
    /\ poll = [p \in Polls |-> NewPoll]
    /\ served = [s \in Sessions |-> 0]
    /\ hb = [p \in Procs |-> "absent"]
    /\ lock_holder = None
    /\ beat = {}
    /\ deaths = 0
    /\ storage_used_mb = [m \in Mirrors |-> 0]
    /\ last_heartbeat = [m \in Mirrors |-> NoHeartbeat]
    /\ reply = NoReply
    /\ now = 0
    /\ dl = NoDownload
    /\ afh = NoCheck
    /\ catalog = [m \in Mirrors |-> NoUpload]
    /\ configured = [m \in Mirrors |-> TRUE]
    /\ fetcher = [t \in Fetchers |-> NoFetch]
    /\ staging = NoStaging
    /\ session = NoSession
    /\ is_on_main_server = [u \in Files |-> TRUE]

SpecFrame == InitFrame /\ [][NextFrame]_vars

\* the rows of other files and of other mirrors than the one that owns key
OtherRows(key, u) ==
    {r \in Rows : replicas[r].upload_id # u \/ api_key(replicas[r].mirror_id) # key}

\* C31: a sync_complete request for file u that carries the key of mirror m
\* changes at most the replica of u on m: the replicas of other mirrors and
\* of other files keep their status, error message and timestamps, and no
\* replica is added or removed.
C31_OnlyOwnReplica ==
    [][\A key \in Keys, u \in FrameFiles, status \in CallbackStatus, msg \in CallbackMessages :
          sync_complete_callback(key, u, status, msg) =>
              /\ DOMAIN replicas' = DOMAIN replicas
              /\ \A r \in OtherRows(key, u) :
                    replicas'[r] = replicas[r] /\ stamps'[r] = stamps[r]]_vars

\* mirror 1 reported file 1 synced and mirror 2 reported it failed, each
\* in its own row, and the replica of file 2 is as it was
C31_Witness ==
    /\ replicas[1].status = "synced" /\ stamps[1].synced_at # None
    /\ replicas[2].status = "error" /\ replicas[2].error_message = "mirror error"
    /\ stamps[2].synced_at = None /\ stamps[2].updated_at # stamps[1].updated_at
    /\ replicas[3].status = "syncing" /\ stamps[3].updated_at = 0

(***************************************************************************)
(* Two perform_sync threads of one mirror node for the same file           *)
(* (mirror_api.py lines 84-244).  receive_sync_job starts a thread for     *)
(* every request it accepts (lines 294-295) and every thread of a file     *)
(* uses local_path = UPLOAD_FOLDER/filename (line 109).  staging.path is   *)
(* the file that name refers to (None: no such name), staging.files the    *)
(* bytes of every file that was created, fetcher[t].fd the file thread t   *)
(* has open for writing and fetcher[t].pos its own write offset.  The      *)
(* node is mirror 1 and the file is file 1.                                *)
(***************************************************************************)
\* the bytes of the file on the primary; the job declares their digest
Payload == <<1, 1>>

\* open(local_path, 'wb') line 145: an existing file is truncated, a
\* missing one is created
open_wb(st) ==
    IF st.path = None
    THEN [path |-> Len(st.files) + 1, files |-> Append(st.files, << >>)]
    ELSE [st EXCEPT !.files[st.path] = << >>]

\* f.write(chunk) line 150 at the offset of the writer's own descriptor;
\* bytes between the end of the file and the offset read as 0
write_at(content, pos, b) ==
    [i \in 1..(IF Len(content) > pos THEN Len(content) ELSE pos + 1) |->
        IF i = pos + 1 THEN b ELSE IF i <= Len(content) THEN content[i] ELSE 0]

\* a progress report that cannot be delivered fails the job
after_progress_raising(pc, delivery) == IF delivery = "lost" THEN "failed" ELSE pc

\* lines 158-171: an exception of the progress request is logged and passed
after_progress(pc, delivery) == pc

\* receive_sync_job lines 294-297: the thread of an accepted job starts
start_thread(t) ==
    /\ fetcher[t].pc = "none"
    /\ fetcher' = [fetcher EXCEPT ![t].pc = "connect"]
    /\ UNCHANGED <<staging, replicas, catalog, configured, mirror_active, thr, uploadVars, leaseVars, fetchVars, pollVars, hbVars, mirrorVars,
                   webVars, mgrVars>>

\* lines 112-141 as one step: the retry loop ends with a 200 answer or the
\* job raises
connect_main(t, answer) ==
    /\ fetcher[t].pc = "connect"
    /\ fetcher' = [fetcher EXCEPT ![t] =
                     IF answer = "ok200"
                     THEN [fetcher[t] EXCEPT !.pc = "open"]
                     ELSE [fetcher[t] EXCEPT !.pc = "failed", !.err = "Failed to connect"]]
    /\ UNCHANGED <<staging, replicas, catalog, configured, mirror_active, thr, uploadVars, leaseVars, fetchVars, pollVars, hbVars, mirrorVars,
                   webVars, mgrVars>>

\* line 145
open_local_path(t) ==
    /\ fetcher[t].pc = "open"
    /\ staging' = open_wb(staging)
    /\ fetcher' = [fetcher EXCEPT ![t].pc = "stream", ![t].fd = staging'.path, ![t].pos = 0]
    /\ UNCHANGED <<replicas, catalog, configured, mirror_active, thr, uploadVars, leaseVars, fetchVars, pollVars, hbVars, mirrorVars,
                   webVars, mgrVars>>

\* the ends of the progress request after a chunk: not due yet (line 154),
\* delivered, or not delivered
ProgressReports == {"not due", "delivered", "lost"}

\* lines 149-171: the next chunk is written and, when one is due, the
\* progress report is posted
write_chunk(t, report) ==
    /\ fetcher[t].pc = "stream"
    /\ fetcher[t].pos < Len(Payload)
    /\ staging' = [staging EXCEPT !.files[fetcher[t].fd] =
                      write_at(@, fetcher[t].pos, Payload[fetcher[t].pos + 1])]
    /\ fetcher' = [fetcher EXCEPT ![t].pos = @ + 1,
                                  ![t].pc = after_progress(@, report),
                                  ![t].fd = IF after_progress("stream", report) = "stream"
                                            THEN @ ELSE None,
                                  ![t].err = IF after_progress("stream", report) = "stream"
                                             THEN @ ELSE "progress failed",
                                  ![t].lost = @ \/ report = "lost"]
    /\ UNCHANGED <<replicas, catalog, configured, mirror_active, thr, uploadVars, leaseVars, fetchVars, pollVars, hbVars, mirrorVars,
                   webVars, mgrVars>>

\* iter_content raises (the connection broke): the with block closes the
\* file and the exception reaches line 229
stream_raises(t) ==
    /\ fetcher[t].pc = "stream"
    /\ fetcher[t].pos < Len(Payload)
    /\ fetcher' = [fetcher EXCEPT ![t].pc = "failed", ![t].fd = None,
                                  ![t].err = "connection broken"]
    /\ UNCHANGED <<staging, replicas, catalog, configured, mirror_active, thr, uploadVars, leaseVars, fetchVars, pollVars, hbVars, mirrorVars,
                   webVars, mgrVars>>

\* the stream ended: the with block of line 145 closes the file
close_local_path(t) ==
    /\ fetcher[t].pc = "stream"
    /\ fetcher[t].pos = Len(Payload)
    /\ fetcher' = [fetcher EXCEPT ![t].pc = "verify", ![t].fd = None]
    /\ UNCHANGED <<staging, replicas, catalog, configured, mirror_active, thr, uploadVars, leaseVars, fetchVars, pollVars, hbVars, mirrorVars,
                   webVars, mgrVars>>

\* lines 177-189: the file the name refers to now is read; open raises when
\* there is none
verify_md5(t) ==
    /\ fetcher[t].pc = "verify"
    /\ fetcher' = [fetcher EXCEPT ![t] =
                     IF staging.path = None
                     THEN [fetcher[t] EXCEPT !.pc = "failed", !.err = "No such file"]
                     ELSE IF calculate_md5(staging.files[staging.path]) # calculate_md5(Payload)
                     THEN [fetcher[t] EXCEPT !.pc = "failed", !.err = "MD5 mismatch"]
                     ELSE [fetcher[t] EXCEPT !.pc = "report"]]
    /\ UNCHANGED <<staging, replicas, catalog, configured, mirror_active, thr, uploadVars, leaseVars, fetchVars, pollVars, hbVars, mirrorVars,
                   webVars, mgrVars>>

\* lines 191-227: the success report and, after it, the node's own catalog
post_synced(t, delivery) ==
    /\ fetcher[t].pc = "report"
    /\ IF delivery = "lost"
       THEN UNCHANGED replicas
       ELSE sync_complete_request(1, 1, "synced", "none")
    /\ fetcher' = [fetcher EXCEPT ![t] =
                     IF delivery = "delivered"
                     THEN [fetcher[t] EXCEPT !.pc = "done"]
                     ELSE [fetcher[t] EXCEPT !.pc = "failed", !.err = "report failed"]]
    /\ catalog' = IF delivery = "delivered"
                  THEN [catalog EXCEPT ![1] = local_upload(JobData(1, Len(Payload),
                                                                   calculate_md5(Payload)))]
                  ELSE catalog
    /\ UNCHANGED <<staging, configured, mirror_active, thr, uploadVars, leaseVars, fetchVars, pollVars, hbVars, mirrorVars,
                   webVars, mgrVars>>

\* lines 229-240
post_error(t, delivery) ==
    /\ fetcher[t].pc = "failed"
    /\ IF delivery = "lost"
       THEN UNCHANGED replicas
       ELSE sync_complete_request(1, 1, "error", fetcher[t].err)
    /\ fetcher' = [fetcher EXCEPT ![t].pc = "cleanup"]
    /\ UNCHANGED <<staging, catalog, configured, mirror_active, thr, uploadVars, leaseVars, fetchVars, pollVars, hbVars, mirrorVars,
                   webVars, mgrVars>>

\* lines 242-244: the name is removed when it exists; a file another
\* thread still has open lives on without a name
remove_local_path(t) ==
    /\ fetcher[t].pc = "cleanup"
    /\ staging' = [staging EXCEPT !.path = None]
    /\ fetcher' = [fetcher EXCEPT ![t].pc = "done"]
    /\ UNCHANGED <<replicas, catalog, configured, mirror_active, thr, uploadVars, leaseVars, fetchVars, pollVars, hbVars, mirrorVars,
                   webVars, mgrVars>>

NextRace ==
    \/ \E t \in Fetchers : start_thread(t)
    \/ \E t \in Fetchers, answer \in {"ok200", "failed"} : connect_main(t, answer)
    \/ \E t \in Fetchers : open_local_path(t)
    \/ \E t \in Fetchers, report \in ProgressReports : write_chunk(t, report)
    \/ \E t \in Fetchers : stream_raises(t)
    \/ \E t \in Fetchers : close_local_path(t)
    \/ \E t \in Fetchers : verify_md5(t)
    \/ \E t \in Fetchers, delivery \in ReportDeliveries : post_synced(t, delivery)
    \/ \E t \in Fetchers, delivery \in ReportDeliveries : post_error(t, delivery)
    \/ \E t \in Fetchers : remove_local_path(t)

\* the primary dispatched the job for file 1 to mirror 1 (its replica is
\* syncing); the node has no thread and no file
InitRace ==
    /\ replicas = <<[FileReplica(1, 1) EXCEPT !.status = "syncing"]>>
    /\ mirror_active = [m \in Mirrors |-> TRUE]
    /\ thr = [t \in Threads |-> IdleThread]
    /\ chunk_size = 1
    /\ chunks = [s \in Sessions |-> << >>]
    /\ disk = << >>
    /\ uploads = << >>
    /\ plan = [s \in Sessions |-> << >>]
    /\ finished = {}
    /\ last = NoResponse
    /\ local_active_downloads = [w \in Workers |-> {}]
    /\ active_count = 0
    /\ xfer = [l \in Transfers |-> NewTransfer]
    /\ decs = [l \in Transfers |-> 0]
    /\ closes = [l \in Transfers |-> 0]
    /\ total_bandwidth = [w \in Workers |-> 0]
    /\ allocated = [l \in Transfers |-> 0]
    /\ job = [m \in Mirrors |-> NewJob]
    /\ local_file = [m \in Mirrors |-> "absent"]
    /\ status_file = [s \in Sessions |-> "absent"]
    /\ poll = [p \in Polls |-> NewPoll]
    /\ served = [s \in Sessions |-> 0]
    /\ hb = [p \in Procs |-> "absent"]
    /\ lock_holder = None
    /\ beat = {}
    /\ deaths = 0
    /\ storage_used_mb = [m \in Mirrors |-> 0]
    /\ last_heartbeat = [m \in Mirrors |-> NoHeartbeat]
    /\ reply = NoReply
    /\ stamps = << >>
    /\ now = 0
    /\ dl = NoDownload
    /\ afh = NoCheck
    /\ catalog = [m \in Mirrors |-> NoUpload]
    /\ configured = [m \in Mirrors |-> TRUE]
    /\ fetcher = [t \in Fetchers |-> NoFetch]
    /\ staging = NoStaging
    /\ session = NoSession
    /\ is_on_main_server = [u \in Files |-> TRUE]

SpecRace == InitRace /\ [][NextRace]_vars

\* C32: no two perform_sync threads write the same staging file at the
\* same time, also when the node accepted a second job for the file while
\* the fetch of the first was running.
C32_OneWriterPerStagingFile ==
    \A a, b \in Fetchers :
        (fetcher[a].pc = "stream" /\ fetcher[b].pc = "stream" /\ fetcher[a].fd = fetcher[b].fd)
            => a = b

\* C33: a progress report that could not be delivered leaves the job where
\* a delivered one leaves it: the thread goes on streaming with the chunk
\* written, no error is noted and nothing is reported to the primary.
C33_ProgressFailureIgnored ==
    [][\A t \in Fetchers : write_chunk(t, "lost") =>
          /\ fetcher'[t] = [fetcher[t] EXCEPT !.pos = @ + 1, !.lost = TRUE]
          /\ replicas' = replicas
          /\ staging'.path = staging.path]_vars

\* a job that lost a progress report ended with its file reported synced
C33_Witness ==
    \E t \in Fetchers :
        /\ fetcher[t].lost
        /\ fetcher[t].pc = "done" /\ fetcher[t].err = "none"
        /\ replicas[1].status = "synced"

\* C36: while no delete job was issued, whenever the primary records the
\* replica as synced the node's storage holds the file under its name with
\* the declared bytes.
C36_SyncedMeansStored ==
    replicas[1].status = "synced" =>
        (staging.path # None /\ staging.files[staging.path] = Payload)

(***************************************************************************)
(* delete_from_main (app/utils/mirror_utils.py lines 142-168): the primary *)
(* gives up its own copy of a file.  is_on_main_server[u] is the attribute *)
(* line 162 sets on the Upload object; disk holds the primary's files by   *)
(* name.                                                                   *)
(***************************************************************************)
ReplicaStatus == {"pending", "syncing", "synced", "error"}
UploadIds == {1, 2}

\* line 151
synced_replicas(u) ==
    Cardinality({r \in Rows : replicas[r].upload_id = u /\ replicas[r].status = "synced"})

\* one synced replica is taken as enough
not_enough_one(n) == n < 1

\* line 152
not_enough(n) == n < 2

\* delete_from_main(upload_id); os_error: os.remove raises
delete_from_main(u, os_error) ==
    /\ IF u \notin DOMAIN uploads
       THEN /\ reply' = Reply("delete_from_main", "Upload not found")
            /\ UNCHANGED <<disk, is_on_main_server>>
       ELSE IF not_enough(synced_replicas(u))
       THEN /\ reply' = Reply("delete_from_main", "Not enough replicas")
            /\ UNCHANGED <<disk, is_on_main_server>>
       ELSE IF uploads[u].filename \in DOMAIN disk /\ os_error
       THEN /\ reply' = Reply("delete_from_main", "exception")
            /\ UNCHANGED <<disk, is_on_main_server>>
       ELSE /\ disk' = [f \in DOMAIN disk \ {uploads[u].filename} |-> disk[f]]
            /\ is_on_main_server' = [is_on_main_server EXCEPT ![u] = FALSE]
            /\ reply' = Reply("delete_from_main", "Deleted from main server")
    /\ UNCHANGED <<uploads, syncVars, chunk_size, chunks, plan, finished, last, leaseVars, fetchVars,
                   pollVars, hbVars, mirrorVars, stamps, now, dl, afh, nodeVars, raceVars, session>>

NextDelete ==
    \E u \in UploadIds, os_error \in BOOLEAN : delete_from_main(u, os_error)

\* file 1 is approved, with a replica on each mirror in any status and its
\* bytes on the primary's disk or already gone; a replica of another file
\* is there as well
InitDelete ==
    /\ uploads = <<[Upload(1, 1, 1) EXCEPT !.status = "approved"]>>
    /\ disk \in {<< >>, (1 :> <<1>>)}
    /\ \E s1, s2, s3 \in ReplicaStatus :
           replicas = <<[FileReplica(1, 1) EXCEPT !.status = s1],
                        [FileReplica(1, 2) EXCEPT !.status = s2],
                        [FileReplica(2, 1) EXCEPT !.status = s3]>>
    /\ mirror_active = [m \in Mirrors |-> TRUE]
    /\ thr = [t \in Threads |-> IdleThread]
    /\ chunk_size = 1
    /\ chunks = [s \in Sessions |-> << >>]
    /\ plan = [s \in Sessions |-> << >>]
    /\ finished = {}
    /\ last = NoResponse
    /\ local_active_downloads = [w \in Workers |-> {}]
    /\ active_count = 0
    /\ xfer = [l \in Transfers |-> NewTransfer]
    /\ decs = [l \in Transfers |-> 0]
    /\ closes = [l \in Transfers |-> 0]
    /\ total_bandwidth = [w \in Workers |-> 0]
    /\ allocated = [l \in Transfers |-> 0]
    /\ job = [m \in Mirrors |-> NewJob]
    /\ local_file = [m \in Mirrors |-> "absent"]
    /\ status_file = [s \in Sessions |-> "absent"]
    /\ poll = [p \in Polls |-> NewPoll]
    /\ served = [s \in Sessions |-> 0]
    /\ hb = [p \in Procs |-> "absent"]
    /\ lock_holder = None
    /\ beat = {}
    /\ deaths = 0
    /\ storage_used_mb = [m \in Mirrors |-> 0]
    /\ last_heartbeat = [m \in Mirrors |-> NoHeartbeat]
    /\ reply = NoReply
    /\ stamps = << >>
    /\ now = 0
    /\ dl = NoDownload
    /\ afh = NoCheck
    /\ catalog = [m \in Mirrors |-> NoUpload]
    /\ configured = [m \in Mirrors |-> TRUE]
    /\ fetcher = [t \in Fetchers |-> NoFetch]
    /\ staging = NoStaging
    /\ session = NoSession
    /\ is_on_main_server = [u \in Files |-> TRUE]

SpecDelete == InitDelete /\ [][NextDelete]_vars

SyncedRows(u) == {r \in Rows : replicas[r].upload_id = u /\ replicas[r].status = "synced"}

\* C34: delete_from_main removes the primary's copy of a file only if at
\* least two replicas of the file are synced when it is called; with fewer
\* it returns a failure and changes neither the disk nor the File record.
C34_DeleteNeedsTwoSynced ==
    [][\A u \in UploadIds, os_error \in BOOLEAN : delete_from_main(u, os_error) =>
          /\ disk' # disk => Cardinality(SyncedRows(u)) >= 2
          /\ Cardinality(SyncedRows(u)) < 2 =>
                /\ reply'.code # "Deleted from main server"
                /\ UNCHANGED <<disk, uploads, is_on_main_server, replicas>>]_vars

\* the copy of file 1 was removed with both of its replicas synced
C34_Witness ==
    /\ reply = Reply("delete_from_main", "Deleted from main server")
    /\ 1 \notin DOMAIN disk
    /\ ~is_on_main_server[1]
    /\ Cardinality(SyncedRows(1)) = 2

(***************************************************************************)
(* The bandwidth pool with its sweep (rate_limiter.py lines 171-186).      *)
(* cleanup_old_entries has no caller in the application; here a worker     *)
(* process may run it at any moment.  xfer[l].old: the entry of lease l    *)
(* was stored more than 3600 seconds ago.                                  *)
(***************************************************************************)
\* an hour passes for a lease that is counted and still registered
grow_old(l) ==
    /\ xfer[l].pc \in {"reading", "failed"}
    /\ l \in local_active_downloads[xfer[l].worker]
    /\ ~xfer[l].old
    /\ xfer' = [xfer EXCEPT ![l].old = TRUE]
    /\ UNCHANGED <<local_active_downloads, active_count, decs, closes, total_bandwidth,
                   allocated, syncVars, uploadVars, fetchVars, pollVars, hbVars, mirrorVars, webVars, nodeVars,
                   raceVars, mgrVars>>

\* lines 176-179
to_remove(w) == {l \in local_active_downloads[w] : xfer[l].old}

\* cleanup_old_entries lines 171-186 in worker process w: every old entry
\* is deleted and the shared count lowered for it while it is above 0
cleanup_old_entries(w) ==
    /\ local_active_downloads' = [local_active_downloads EXCEPT ![w] = @ \ to_remove(w)]
    /\ LET lowered == limit(to_remove(w), active_count) IN
        /\ active_count' = active_count - Cardinality(lowered)
        /\ decs' = [l \in Transfers |-> IF l \in lowered THEN decs[l] + 1 ELSE decs[l]]
    /\ UNCHANGED <<xfer, closes, total_bandwidth, allocated, syncVars, uploadVars, fetchVars, pollVars, hbVars, mirrorVars, webVars, nodeVars,
                   raceVars, mgrVars>>

NextSweep ==
    \/ \E l \in Transfers, w \in Workers : create_limited_file_register(l, w)
    \/ \E l \in Transfers : create_limited_file_count(l)
    \/ \E l \in Transfers, opened \in BOOLEAN : create_limited_file_open(l, opened)
    \/ \E l \in Transfers : read(l)
    \/ \E l \in Transfers, how \in LoopExits : end_read(l, how)
    \/ \E l \in Transfers : close_again(l)
    \/ \E l \in Transfers : grow_old(l)
    \/ \E w \in Workers : cleanup_old_entries(w)

\* RateLimiter.__init__ for the pool
InitSweep ==
    /\ replicas = << >>
    /\ mirror_active = [m \in Mirrors |-> TRUE]
    /\ thr = [t \in Threads |-> IdleThread]
    /\ chunk_size = 1
    /\ chunks = [s \in Sessions |-> << >>]
    /\ disk = << >>
    /\ uploads = << >>
    /\ plan = [s \in Sessions |-> << >>]
    /\ finished = {}
    /\ last = NoResponse
    /\ local_active_downloads = [w \in Workers |-> {}]
    /\ active_count = 0
    /\ xfer = [l \in Transfers |-> NewTransfer]
    /\ decs = [l \in Transfers |-> 0]
    /\ closes = [l \in Transfers |-> 0]
    /\ total_bandwidth = [w \in Workers |-> 0]
    /\ allocated = [l \in Transfers |-> 0]
    /\ job = [m \in Mirrors |-> NewJob]
    /\ local_file = [m \in Mirrors |-> "absent"]
    /\ status_file = [s \in Sessions |-> "absent"]
    /\ poll = [p \in Polls |-> NewPoll]
    /\ served = [s \in Sessions |-> 0]
    /\ hb = [p \in Procs |-> "absent"]
    /\ lock_holder = None
    /\ beat = {}
    /\ deaths = 0
    /\ storage_used_mb = [m \in Mirrors |-> 0]
    /\ last_heartbeat = [m \in Mirrors |-> NoHeartbeat]
    /\ reply = NoReply
    /\ stamps = << >>
    /\ now = 0
    /\ dl = NoDownload
    /\ afh = NoCheck
    /\ catalog = [m \in Mirrors |-> NoUpload]
    /\ configured = [m \in Mirrors |-> TRUE]
    /\ fetcher = [t \in Fetchers |-> NoFetch]
    /\ staging = NoStaging
    /\ session = NoSession
    /\ is_on_main_server = [u \in Files |-> TRUE]

SpecSweep == InitSweep /\ [][NextSweep]_vars

\* the leases whose handle is open and whose read loop runs
StillReading == {l \in Transfers : xfer[l].pc = "reading" /\ closes[l] = 0}

C38_NeverNegative == active_count >= 0
C38_LoweredOnce == \A l \in Transfers : decs[l] <= 1
C38_CoversReaders == active_count >= Cardinality(StillReading)

\* C38: the shared count is never negative; a lease lowers it at most once
\* in total, whether the sweep evicted it, its owner released it, or both;
\* and the count is never below the number of leases that are still reading.
C38_SweepKeepsCount == C38_NeverNegative /\ C38_LoweredOnce /\ C38_CoversReaders

(***************************************************************************)
(* AsyncDownloadManager (app/utils/download_manager.py): one download      *)
(* session, its worker thread and the requests that cancel or stream it.   *)
(* The session's lease is transfer 1 of worker process 1; session.pc is    *)
(* the position of _download_worker, session.listed says whether the       *)
(* session is in self.sessions, session.yielded what the stream generator  *)
(* gave out.  The file holds one byte per chunk.                           *)
(***************************************************************************)
\* DownloadSession.__init__ lines 18-34 for a file of the declared size
DownloadSession(file_size) ==
    [NoSession EXCEPT !.status = "pending", !.pc = "start", !.file_size = file_size,
                      !.listed = TRUE]

\* start_download lines 48-63
start_download(file_size) ==
    /\ session.status = "none"
    /\ session' = DownloadSession(file_size)
    /\ UNCHANGED <<local_active_downloads, active_count, decs, closes, xfer, total_bandwidth, allocated,
                   syncVars, uploadVars, fetchVars, pollVars, hbVars, mirrorVars, webVars, nodeVars,
                   raceVars, is_on_main_server>>

\* _download_worker lines 136-147; has_context: current_app can be used in
\* the worker (the thread is a greenlet that carries the application
\* context) or raises RuntimeError at line 147
worker_begin(has_context) ==
    /\ session.pc = "start"
    /\ session' = IF 1 \notin DOMAIN disk \/ ~has_context
                  THEN [session EXCEPT !.status = "error", !.pc = "finally"]
                  ELSE [session EXCEPT !.status = "active", !.pc = "create"]
    /\ UNCHANGED <<local_active_downloads, active_count, decs, closes, xfer, total_bandwidth, allocated,
                   syncVars, uploadVars, fetchVars, pollVars, hbVars, mirrorVars, webVars, nodeVars,
                   raceVars, is_on_main_server>>

\* lines 150-157: create_limited_file stores and counts the lease and then
\* opens the file; when open raises, the worker goes to line 182 with
\* session.limited_file still None
worker_create(opened) ==
    /\ session.pc = "create"
    /\ total_bandwidth' = [total_bandwidth EXCEPT ![1] = Cap]
    /\ local_active_downloads' = [local_active_downloads EXCEPT ![1] = @ \cup {1}]
    /\ active_count' = active_count + 1
    /\ xfer' = [xfer EXCEPT ![1] = [NewTransfer EXCEPT
                    !.pc = IF opened THEN "reading" ELSE "failed",
                    !.worker = 1,
                    !.exit = IF opened THEN "none" ELSE "open_error"]]
    /\ session' = IF opened
                  THEN [session EXCEPT !.limited_file = 1, !.pc = "loop"]
                  ELSE [session EXCEPT !.status = "error", !.pc = "finally"]
    /\ UNCHANGED <<decs, closes, allocated, syncVars, uploadVars, fetchVars, pollVars, hbVars, mirrorVars, webVars, nodeVars,
                   raceVars, is_on_main_server>>

\* lines 159-171, one pass of the loop: the flag is tested, a chunk is read
\* (a closed handle raises) and stored; an empty chunk ends the loop
worker_read ==
    /\ session.pc = "loop"
    /\ IF ~session.client_connected
       THEN /\ session' = [session EXCEPT !.pc = "after"]
            /\ UNCHANGED allocated
       ELSE IF closes[1] > 0
       THEN /\ session' = [session EXCEPT !.status = "error", !.chunks = << >>,
                                          !.pc = "finally"]
            /\ UNCHANGED allocated
       ELSE /\ allocated' = [allocated EXCEPT ![1] = get_allocated_speed(1)]
            /\ session' = IF session.progress < Len(disk[1])
                          THEN [session EXCEPT
                                   !.chunks = Append(@, disk[1][session.progress + 1]),
                                   !.progress = @ + 1]
                          ELSE [session EXCEPT !.pc = "after"]
    /\ UNCHANGED <<local_active_downloads, active_count, decs, closes, xfer, total_bandwidth,
                   syncVars, uploadVars, fetchVars, pollVars, hbVars, mirrorVars, webVars, nodeVars,
                   raceVars, is_on_main_server>>

\* line 173
completed(s) == s.client_connected /\ s.progress = s.file_size

\* lines 173-180
worker_finish ==
    /\ session.pc = "after"
    /\ session' = IF completed(session)
                  THEN [session EXCEPT !.status = "completed", !.pc = "finally"]
                  ELSE [session EXCEPT !.status = "cancelled", !.chunks = << >>,
                                       !.pc = "finally"]
    /\ UNCHANGED <<local_active_downloads, active_count, decs, closes, xfer, total_bandwidth, allocated,
                   syncVars, uploadVars, fetchVars, pollVars, hbVars, mirrorVars, webVars, nodeVars,
                   raceVars, is_on_main_server>>

\* lines 187-193
worker_finally ==
    /\ session.pc = "finally"
    /\ IF session.limited_file # None
       THEN close(1)
       ELSE UNCHANGED <<local_active_downloads, active_count, decs, closes>>
    /\ session' = [session EXCEPT !.limited_file = None, !.pc = "ended"]
    /\ UNCHANGED <<xfer, total_bandwidth, allocated, syncVars, uploadVars, fetchVars, pollVars, hbVars, mirrorVars, webVars, nodeVars,
                   raceVars, is_on_main_server>>

\* the handle is closed n times in a row: the first close releases the
\* lease, the others find no entry
close_times(l, n) ==
    /\ remove_download(xfer[l].worker, l)
    /\ closes' = [closes EXCEPT ![l] = @ + n]

\* cancel_download lines 118-132 for a session that get_session finds: the
\* flag is cleared, the handle closed (lines 125-129) and closed again by
\* _cleanup_session (lines 195-205), which takes the session off the list
cancel_download ==
    /\ session.listed
    /\ IF session.limited_file # None
       THEN close_times(1, 2)
       ELSE UNCHANGED <<local_active_downloads, active_count, decs, closes>>
    /\ session' = [session EXCEPT !.client_connected = FALSE, !.listed = FALSE,
                                  !.chunks = << >>]
    /\ UNCHANGED <<xfer, total_bandwidth, allocated, syncVars, uploadVars, fetchVars, pollVars, hbVars, mirrorVars, webVars, nodeVars,
                   raceVars, is_on_main_server>>

\* line 105
may_stream(s) == s.listed /\ s.status = "completed"

\* get_download_stream lines 102-116 and the run of its generator: the
\* chunks are yielded and _cleanup_session takes the session off the list
get_download_stream ==
    /\ session.status # "none"
    /\ IF may_stream(session)
       THEN /\ session' = [session EXCEPT !.yielded = session.chunks, !.chunks = << >>,
                                          !.listed = FALSE]
            /\ IF session.limited_file # None
               THEN close_times(1, 1)
               ELSE UNCHANGED <<local_active_downloads, active_count, decs, closes>>
       ELSE UNCHANGED <<session, local_active_downloads, active_count, decs, closes>>
    /\ UNCHANGED <<xfer, total_bandwidth, allocated, syncVars, uploadVars, fetchVars, pollVars, hbVars, mirrorVars, webVars, nodeVars,
                   raceVars, is_on_main_server>>

\* the file_size values a session may be created with
FileSizes == 0..MaxLen

NextManager ==
    \/ \E file_size \in FileSizes : start_download(file_size)
    \/ \E has_context \in BOOLEAN : worker_begin(has_context)
    \/ \E opened \in BOOLEAN : worker_create(opened)
    \/ worker_read
    \/ worker_finish
    \/ worker_finally
    \/ cancel_download
    \/ get_download_stream

\* AsyncDownloadManager.__init__: no session, the pool at rest; the file
\* of the upload is missing or holds up to MaxLen bytes
InitManager ==
    /\ disk \in {<< >>} \cup {(1 :> b) : b \in {<< >>} \cup Inputs}
    /\ replicas = << >>
    /\ mirror_active = [m \in Mirrors |-> TRUE]
    /\ thr = [t \in Threads |-> IdleThread]
    /\ chunk_size = 1
    /\ chunks = [s \in Sessions |-> << >>]
    /\ uploads = << >>
    /\ plan = [s \in Sessions |-> << >>]
    /\ finished = {}
    /\ last = NoResponse
    /\ local_active_downloads = [w \in Workers |-> {}]
    /\ active_count = 0
    /\ xfer = [l \in Transfers |-> NewTransfer]
    /\ decs = [l \in Transfers |-> 0]
    /\ closes = [l \in Transfers |-> 0]
    /\ total_bandwidth = [w \in Workers |-> 0]
    /\ allocated = [l \in Transfers |-> 0]
    /\ job = [m \in Mirrors |-> NewJob]
    /\ local_file = [m \in Mirrors |-> "absent"]
    /\ status_file = [s \in Sessions |-> "absent"]
    /\ poll = [p \in Polls |-> NewPoll]
    /\ served = [s \in Sessions |-> 0]
    /\ hb = [p \in Procs |-> "absent"]
    /\ lock_holder = None
    /\ beat = {}
    /\ deaths = 0
    /\ storage_used_mb = [m \in Mirrors |-> 0]
    /\ last_heartbeat = [m \in Mirrors |-> NoHeartbeat]
    /\ reply = NoReply
    /\ stamps = << >>
    /\ now = 0
    /\ dl = NoDownload
    /\ afh = NoCheck
    /\ catalog = [m \in Mirrors |-> NoUpload]
    /\ configured = [m \in Mirrors |-> TRUE]
    /\ fetcher = [t \in Fetchers |-> NoFetch]
    /\ staging = NoStaging
    /\ session = NoSession
    /\ is_on_main_server = [u \in Files |-> TRUE]

SpecManager == InitManager /\ [][NextManager]_vars

\* a session is completed only with exactly file_size bytes read
C39_CompletedIsWhole == session.status = "completed" => session.progress = session.file_size

\* the stream gives out data only in a step that starts with the session
\* completed
C39_StreamOnlyCompleted ==
    [][session'.yielded # session.yielded => session.status = "completed"]_vars

\* the worker has ended: the lease it took is released, by one decrement
C39_Released ==
    (session.pc = "ended" /\ xfer[1].pc # "new") =>
        (decs[1] = 1 /\ active_count = 0 /\ 1 \notin local_active_downloads[1])

\* C39: a download session is completed only if the worker read exactly
\* file_size bytes, and however the worker ends (completed, cancelled,
\* error, with or without a cancel_download that closed the file under it)
\* the lease it took from the pool is released exactly once.  (That the
\* stream yields data only for a completed session is
\* C39_StreamOnlyCompleted.)
C39_SessionAndLease == C39_CompletedIsWhole /\ C39_Released /\ decs[1] <= 1

====
